---- MODULE Spec2Model ----
(***************************************************************************)
(* Model of the delta-tracking metrics export pipeline of hsdfat/telco:   *)
(* the statistics snapshot (stats package), the delta engine and the      *)
(* export cycle (stats/export/scheduler.go) and the transformer           *)
(* (stats/export/transformer.go).                                         *)
(*                                                                         *)
(* Go values are modelled as follows.                                      *)
(*   struct            record with the Go field names                      *)
(*   map[K]V           function whose DOMAIN is the set of keys; a read    *)
(*                     of a missing key yields V's zero value (MapGet);    *)
(*                     a nil map and an empty map read alike               *)
(*   *T that may be nil  sequence of length 0 (nil) or 1                   *)
(*   uint64            natural number below 2^WordBits                     *)
(*   float64           natural number: the model only uses small integral  *)
(*                     non-negative values, which float64 holds exactly    *)
(***************************************************************************)
EXTENDS Integers, Sequences, FiniteSets, TLC

VARIABLES
    config,        \* Transformer.config: [IncludeCounters, ExcludeCounters]
    prevSnapshot,  \* ExportScheduler.prevSnapshot: <<>> (nil) or <<snapshot>>
    ran,           \* TRUE once an export cycle (or a Transform call) has completed
    lastPrev,      \* the previous snapshot the last cycle read: <<>> or <<snapshot>>
    lastCurrent,   \* the snapshot the collector returned in the last cycle
    deltaStats,    \* the delta snapshot of the last cycle (Transform's input)
    profile,       \* which part of its statistics the observed service varies
    candidates,    \* the records of the last Transform before filterRecords
    records,       \* the records the last Transform returned
    running,       \* ExportScheduler.running
    stopChan,      \* ExportScheduler.stopChan: "open" or "closed"
    panicked,      \* TRUE once close() was called on the closed stopChan
    ctxDone,       \* TRUE once the context given to Start is cancelled
    wg,            \* counter of ExportScheduler.wg
    exporters,     \* ExportScheduler.exporters: sequence of sinks
    callers,       \* the goroutines that call Start and Stop: position and locals
    loops,         \* the run goroutines: position, ticker channel and locals
    closeCount,    \* per sink, how many times Close was invoked on it
    stopped,       \* TRUE once a Stop call found the scheduler running
    noopStart,     \* TRUE once a Start call found the scheduler running
    exportSink,    \* the exporter Export is called on: its kind and its config
    exportArg,     \* the records argument of that Export call
    exportCtx,     \* TRUE once the context of that Export call is done
    exportPc,      \* position of the Export call
    attempt,       \* the loop variable attempt of the retry loop
    offset,        \* the loop variable i over the records (batch start or record)
    transport,     \* the transport actions of the call so far, in order
    delivered,     \* the indices of the records the sink's destination received
    exportRet,     \* what Export returned: "none" while it runs
    providers,     \* Manager.providers: the data each provider's Load returns
    managerCurrent,\* Manager.current: <<>> (nil) or <<map>>
    loadRet,       \* what Manager.Load returned, once it did
    heap,          \* the objects of the snapshots in memory: address -> content
    refs,          \* the addresses the current, previous and delta snapshot hold
    cycles,        \* how many cycles ran on the heap
    eq,            \* the EventQueue: running, ctx, cancel, wg, events, bufferSize
    cancelledCtx,  \* the contexts that are done (0: the context given to Start)
    clients,       \* the goroutines that call Start, Stop and Enqueue
    workers,       \* the processEvents goroutines: position
    eventObjs,     \* the events: type, deadline, EventContext, what happened to it
    returned,      \* the call that returned in the last step: <<>> or <<call>>
    ledger         \* per counter, the sum of the deltas of the cycles that replaced the slot

\* the variables of the scheduler's goroutines
schedVars == <<running, stopChan, panicked, ctxDone, wg, exporters, callers, loops,
               closeCount, stopped, noopStart>>

\* the variables of one Export call on one sink
exportVars == <<exportSink, exportArg, exportCtx, exportPc, attempt, offset, transport,
                delivered, exportRet>>

\* the variables of the configuration manager
managerVars == <<providers, managerCurrent, loadRet>>

\* the variables of the memory the snapshots live in
heapVars == <<heap, refs, cycles>>

\* the variables of the event queue
queueVars == <<eq, cancelledCtx, clients, workers, eventObjs, returned>>

callVars == <<exportVars, managerVars, heapVars, queueVars, ledger>>

vars == <<config, profile, prevSnapshot, ran, lastPrev, lastCurrent, deltaStats,
          candidates, records, running, stopChan, panicked, ctxDone, wg, exporters,
          callers, loops, closeCount, stopped, noopStart, exportSink, exportArg,
          exportCtx, exportPc, attempt, offset, transport, delivered, exportRet,
          providers, managerCurrent, loadRet, heap, refs, cycles,
          eq, cancelledCtx, clients, workers, eventObjs, returned, ledger>>

----------------------------------------------------------------------------
(* Bounds of the model *)

\* counter and gauge values of the collector's snapshots range over 0..MaxVal
MaxVal == 2

Val == 0..MaxVal

\* width of the model's unsigned integers; Go's uint64 has 64 bits, TLC's
\* integers have 32, so wrap-around is modelled at 2^WordBits
WordBits == 16

Modulus == 2 ^ WordBits

----------------------------------------------------------------------------
(* Counter identifiers *)

CounterTotalRequests == 1000

CounterSuccessfulRequests == 1001

CounterFailedRequests == 1002

CounterPendingRequests == 1003

CounterDiameterTotal == 1100

CounterDiameterSuccess == 1101

CounterDiameterFailed == 1102

CounterDiameterResultCode == 1103

CounterHTTPTotal == 1200

CounterHTTPSuccess == 1201

CounterHTTPFailed == 1202

CounterHTTPStatusCode == 1203

CounterRequestsPerSecond == 1300

CounterAvgLatencyMs == 1301

CounterMinLatencyMs == 1302

CounterMaxLatencyMs == 1303

CounterP50LatencyMs == 1304

CounterP95LatencyMs == 1305

CounterP99LatencyMs == 1306

CounterCacheHits == 1400

CounterCacheMisses == 1401

CounterCacheHitRate == 1402

CounterCacheSize == 1403

CounterDBQueries == 1500

CounterDBInserts == 1501

CounterDBUpdates == 1502

CounterDBDeletes == 1503

CounterWhitelisted == 1600

CounterBlacklisted == 1601

CounterGreylisted == 1602

CounterActiveConnections == 1700

CounterTotalConnections == 1701

CounterFailedConnections == 1702

----------------------------------------------------------------------------
(* Go maps *)

EmptyMap == [k \in {} |-> 0]

\* m[k] in Go: the zero value when the key is missing
MapGet(m, k, zero) == IF k \in DOMAIN m THEN m[k] ELSE zero

----------------------------------------------------------------------------
(* The snapshot model (package stats) *)

ConnectionFields == {"Total", "Active", "Failed", "Closed"}

RequestScalarFields == {"Total", "Success", "Failed", "Pending", "BytesSent", "BytesRecv"}

SourceFields == {"Total", "Success", "Failed"}

OperationFields == {"Total", "Success", "Failed", "AvgLatencyMs"}

PerformanceFields == {"RequestsPerSecond", "AvgLatencyMs", "MinLatencyMs", "MaxLatencyMs",
                      "P50LatencyMs", "P95LatencyMs", "P99LatencyMs"}

EquipmentCheckScalarFields == {"Total", "Success", "Failed"}

DatabaseOpsFields == {"Queries", "Inserts", "Updates", "Deletes", "Errors",
                      "AvgLatencyMs", "ActiveQueries"}

CacheFields == {"Hits", "Misses", "HitRate", "Size", "MaxSize", "Evictions"}

\* a struct whose fields all hold v
Uniform(fields, v) == [f \in fields |-> v]

ZeroSourceStats == Uniform(SourceFields, 0)

ZeroOperationStats == Uniform(OperationFields, 0)

\* InterfaceCheckStats as scheduler.go and transformer.go use it
InterfaceCheckStats(total, success, failed, byResultCode) ==
    [Total |-> total, Success |-> success, Failed |-> failed, ByResultCode |-> byResultCode]

ZeroInterfaceCheckStats == InterfaceCheckStats(0, 0, 0, EmptyMap)

RequestStats(scalars, bySource, byOperation) ==
    [Total |-> scalars.Total, Success |-> scalars.Success, Failed |-> scalars.Failed,
     Pending |-> scalars.Pending, BytesSent |-> scalars.BytesSent,
     BytesRecv |-> scalars.BytesRecv, BySource |-> bySource, ByOperation |-> byOperation]

\* LastError is a pointer: <<>> is nil
ErrorStats(total, byType, byInterface, lastError) ==
    [Total |-> total, ByType |-> byType, ByInterface |-> byInterface, LastError |-> lastError]

EquipmentCheckStats(scalars, byInterface) ==
    [Total |-> scalars.Total, Success |-> scalars.Success, Failed |-> scalars.Failed,
     ByInterface |-> byInterface]

EIRStats(equipmentChecks, databaseOps, cacheStats, byEquipmentStatus) ==
    [EquipmentChecks |-> equipmentChecks, DatabaseOps |-> databaseOps,
     CacheStats |-> cacheStats, ByEquipmentStatus |-> byEquipmentStatus]

ZeroEIRStats ==
    EIRStats(EquipmentCheckStats(Uniform(EquipmentCheckScalarFields, 0), EmptyMap),
             Uniform(DatabaseOpsFields, 0), Uniform(CacheFields, 0), EmptyMap)

\* a value of CustomMetrics (map[string]interface{}): its dynamic type and,
\* for a *EIRStats, what it points to
EIRValue(eir) == [type |-> "*EIRStats", val |-> eir]

OtherValue == [type |-> "string", val |-> ZeroEIRStats]

ServiceStats(connections, requests, performance, errors, interfaceStats, customMetrics) ==
    [ServiceName |-> "EIR", ServiceVersion |-> "1.0.0", Uptime |-> "1m", Timestamp |-> 1,
     Connections |-> connections, Requests |-> requests, Performance |-> performance,
     Errors |-> errors, InterfaceStats |-> interfaceStats, CustomMetrics |-> customMetrics]

\* v, ok := m["eir"].(*EIRStats): ok
HasEIR(customMetrics) ==
    "eir" \in DOMAIN customMetrics /\ customMetrics["eir"].type = "*EIRStats"

GetEIR(customMetrics) == customMetrics["eir"].val

----------------------------------------------------------------------------
(* The delta engine (scheduler.go) *)

\* unguarded unsigned subtraction: wraps around below zero
safeSub64_wrapping(a, b) == (a - b) % Modulus

safeSub64(a, b) == IF a >= b THEN a - b ELSE 0

calculateMapDelta64(current, prev) ==
    LET diff(key) == safeSub64(current[key], MapGet(prev, key, 0))
        kept == {key \in DOMAIN current : diff(key) > 0}
    IN  [key \in kept |-> diff(key)]

calculateMapDeltaInt64(current, prev) ==
    LET diff(key) == safeSub64(current[key], MapGet(prev, key, 0))
        kept == {key \in DOMAIN current : diff(key) > 0}
    IN  [key \in kept |-> diff(key)]

\* the Active gauge differenced like a counter
DeltaConnections_activeDifferenced(current, prev) ==
    [Active |-> safeSub64(current.Connections.Active, prev.Connections.Active),
     Total |-> safeSub64(current.Connections.Total, prev.Connections.Total),
     Failed |-> safeSub64(current.Connections.Failed, prev.Connections.Failed),
     Closed |-> 0]

\* the ConnectionStats literal of the delta; Closed is not set and stays zero
DeltaConnections(current, prev) ==
    [Active |-> current.Connections.Active,
     Total |-> safeSub64(current.Connections.Total, prev.Connections.Total),
     Failed |-> safeSub64(current.Connections.Failed, prev.Connections.Failed),
     Closed |-> 0]

DeltaBySource(current, prev) ==
    [source \in DOMAIN current.Requests.BySource |->
        LET currStat == current.Requests.BySource[source]
            prevStat == MapGet(prev.Requests.BySource, source, ZeroSourceStats)
        IN  [Total |-> safeSub64(currStat.Total, prevStat.Total),
             Success |-> safeSub64(currStat.Success, prevStat.Success),
             Failed |-> safeSub64(currStat.Failed, prevStat.Failed)]]

\* the OperationStats literal sets no AvgLatencyMs: it stays zero
DeltaByOperation(current, prev) ==
    [op \in DOMAIN current.Requests.ByOperation |->
        LET currStat == current.Requests.ByOperation[op]
            prevStat == MapGet(prev.Requests.ByOperation, op, ZeroOperationStats)
        IN  [Total |-> safeSub64(currStat.Total, prevStat.Total),
             Success |-> safeSub64(currStat.Success, prevStat.Success),
             Failed |-> safeSub64(currStat.Failed, prevStat.Failed),
             AvgLatencyMs |-> 0]]

\* Success differenced against the previous Failed
DeltaRequests_wrongField(current, prev) ==
    [Total |-> safeSub64(current.Requests.Total, prev.Requests.Total),
     Success |-> safeSub64(current.Requests.Success, prev.Requests.Failed),
     Failed |-> safeSub64(current.Requests.Failed, prev.Requests.Failed),
     Pending |-> current.Requests.Pending,
     BytesSent |-> 0,
     BytesRecv |-> 0,
     BySource |-> DeltaBySource(current, prev),
     ByOperation |-> DeltaByOperation(current, prev)]

\* the RequestStats literal and the two loops that fill its maps;
\* BytesSent and BytesRecv are not set and stay zero
DeltaRequests(current, prev) ==
    [Total |-> safeSub64(current.Requests.Total, prev.Requests.Total),
     Success |-> safeSub64(current.Requests.Success, prev.Requests.Success),
     Failed |-> safeSub64(current.Requests.Failed, prev.Requests.Failed),
     Pending |-> current.Requests.Pending,
     BytesSent |-> 0,
     BytesRecv |-> 0,
     BySource |-> DeltaBySource(current, prev),
     ByOperation |-> DeltaByOperation(current, prev)]

DeltaPerformance(current) ==
    [RequestsPerSecond |-> current.Performance.RequestsPerSecond,
     AvgLatencyMs |-> current.Performance.AvgLatencyMs,
     MinLatencyMs |-> current.Performance.MinLatencyMs,
     MaxLatencyMs |-> current.Performance.MaxLatencyMs,
     P50LatencyMs |-> current.Performance.P50LatencyMs,
     P95LatencyMs |-> current.Performance.P95LatencyMs,
     P99LatencyMs |-> current.Performance.P99LatencyMs]

\* the ErrorStats literal; LastError is not set and stays nil
DeltaErrors(current, prev) ==
    [Total |-> safeSub64(current.Errors.Total, prev.Errors.Total),
     ByType |-> calculateMapDelta64(current.Errors.ByType, prev.Errors.ByType),
     ByInterface |-> calculateMapDelta64(current.Errors.ByInterface, prev.Errors.ByInterface),
     LastError |-> <<>>]

\* an interface of either block gets an entry
DeltaEIRByInterface_allKeys(current, p) ==
    [ifName \in DOMAIN current.EquipmentChecks.ByInterface
                \cup DOMAIN p.EquipmentChecks.ByInterface |->
       LET currIf == MapGet(current.EquipmentChecks.ByInterface, ifName,
                            ZeroInterfaceCheckStats)
           prevIf == MapGet(p.EquipmentChecks.ByInterface, ifName, ZeroInterfaceCheckStats)
       IN  [Total |-> safeSub64(currIf.Total, prevIf.Total),
            Success |-> safeSub64(currIf.Success, prevIf.Success),
            Failed |-> safeSub64(currIf.Failed, prevIf.Failed),
            ByResultCode |-> calculateMapDeltaInt64(currIf.ByResultCode,
                                                    prevIf.ByResultCode)]]

\* the loop over current.EquipmentChecks.ByInterface
DeltaEIRByInterface(current, p) ==
    [ifName \in DOMAIN current.EquipmentChecks.ByInterface |->
       LET currIf == current.EquipmentChecks.ByInterface[ifName]
           prevIf == MapGet(p.EquipmentChecks.ByInterface, ifName, ZeroInterfaceCheckStats)
       IN  [Total |-> safeSub64(currIf.Total, prevIf.Total),
            Success |-> safeSub64(currIf.Success, prevIf.Success),
            Failed |-> safeSub64(currIf.Failed, prevIf.Failed),
            ByResultCode |-> calculateMapDeltaInt64(currIf.ByResultCode,
                                                    prevIf.ByResultCode)]]

\* prev is <<>> (nil) or <<EIRStats>>; the fields the literals do not set
\* (MaxSize, Evictions, Errors, AvgLatencyMs, ActiveQueries) stay zero
calculateEIRDelta(current, prev) ==
    IF prev = <<>> THEN current
    ELSE LET p == prev[1] IN
      [EquipmentChecks |->
         [Total |-> safeSub64(current.EquipmentChecks.Total, p.EquipmentChecks.Total),
          Success |-> safeSub64(current.EquipmentChecks.Success, p.EquipmentChecks.Success),
          Failed |-> safeSub64(current.EquipmentChecks.Failed, p.EquipmentChecks.Failed),
          ByInterface |-> DeltaEIRByInterface(current, p)],
       CacheStats |->
         [Hits |-> safeSub64(current.CacheStats.Hits, p.CacheStats.Hits),
          Misses |-> safeSub64(current.CacheStats.Misses, p.CacheStats.Misses),
          HitRate |-> current.CacheStats.HitRate,
          Size |-> current.CacheStats.Size,
          MaxSize |-> 0,
          Evictions |-> 0],
       DatabaseOps |->
         [Queries |-> safeSub64(current.DatabaseOps.Queries, p.DatabaseOps.Queries),
          Inserts |-> safeSub64(current.DatabaseOps.Inserts, p.DatabaseOps.Inserts),
          Updates |-> safeSub64(current.DatabaseOps.Updates, p.DatabaseOps.Updates),
          Deletes |-> safeSub64(current.DatabaseOps.Deletes, p.DatabaseOps.Deletes),
          Errors |-> 0,
          AvgLatencyMs |-> 0,
          ActiveQueries |-> 0],
       ByEquipmentStatus |-> calculateMapDelta64(current.ByEquipmentStatus,
                                                 p.ByEquipmentStatus)]

\* the EIR block of the delta: CustomMetrics starts empty and gets an "eir"
\* entry only when the current snapshot carries a *EIRStats
\* an extension block only when both snapshots carry one
DeltaCustomMetrics_needsPrev(current, prev) ==
    IF HasEIR(current.CustomMetrics) /\ HasEIR(prev.CustomMetrics)
    THEN [k \in {"eir"} |->
             EIRValue(calculateEIRDelta(GetEIR(current.CustomMetrics),
                                        <<GetEIR(prev.CustomMetrics)>>))]
    ELSE EmptyMap

DeltaCustomMetrics(current, prev) ==
    IF HasEIR(current.CustomMetrics)
    THEN LET prevEIR == IF HasEIR(prev.CustomMetrics)
                        THEN <<GetEIR(prev.CustomMetrics)>> ELSE <<>>
         IN  [k \in {"eir"} |->
                 EIRValue(calculateEIRDelta(GetEIR(current.CustomMetrics), prevEIR))]
    ELSE EmptyMap

\* the delta against an existing previous snapshot; InterfaceStats is not set
DeltaAgainst(current, prev) ==
    [ServiceName |-> current.ServiceName,
     ServiceVersion |-> current.ServiceVersion,
     Uptime |-> current.Uptime,
     Timestamp |-> current.Timestamp,
     Connections |-> DeltaConnections(current, prev),
     Requests |-> DeltaRequests(current, prev),
     Performance |-> DeltaPerformance(current),
     Errors |-> DeltaErrors(current, prev),
     InterfaceStats |-> EmptyMap,
     CustomMetrics |-> DeltaCustomMetrics(current, prev)]

\* a missing previous snapshot treated as an all-zero one
calculateDeltaStats_noFirstCycle(prev, current) ==
    DeltaAgainst(current,
                 IF prev = <<>>
                 THEN ServiceStats(Uniform(ConnectionFields, 0),
                                   RequestStats(Uniform(RequestScalarFields, 0),
                                                EmptyMap, EmptyMap),
                                   Uniform(PerformanceFields, 0),
                                   ErrorStats(0, EmptyMap, EmptyMap, <<>>),
                                   EmptyMap, EmptyMap)
                 ELSE prev[1])

\* prev is the previous-snapshot slot: <<>> (nil) or <<snapshot>>
calculateDeltaStats(prev, current) ==
    IF prev = <<>> THEN current ELSE DeltaAgainst(current, prev[1])

----------------------------------------------------------------------------
(* The transformer (transformer.go) *)

Hostname == "test-host"

SystemName == "EIR"

\* float64(x) of a uint64 x: exact for every x below 2^53, so for every value
\* of the model
ToFloat64(x) == x

createRecord(counterID, value, causeCode, timestamp) ==
    [CounterID |-> counterID, Value |-> value, CauseCode |-> causeCode,
     Hostname |-> Hostname, SystemName |-> SystemName, Timestamp |-> timestamp]

\* if cond { records = append(records, record) }
AppendIf(cond, record) == IF cond THEN <<record>> ELSE <<>>

\* all orders in which a range loop may visit the keys S of a Go map
SeqsOf(S) ==
    {s \in [1..Cardinality(S) -> S] : \A i, j \in 1..Cardinality(S) : i # j => s[i] # s[j]}

\* the code alone, without the interface
CauseCodeOf_codeOnly(ifName, code) == ToString(code)

\* fmt.Sprintf("%s:%d", ifName, code)
CauseCodeOf(ifName, code) == ifName \o ":" \o ToString(code)

\* one iteration of the loop over EquipmentChecks.ByInterface; codeOrder is the
\* order in which the inner loop visits ByResultCode
InterfaceRecords(ifName, ifStats, codeOrder, timestamp) ==
    IF ifName \notin {"diameter", "http"} THEN <<>>
    ELSE
      LET totalCounter == IF ifName = "diameter" THEN CounterDiameterTotal ELSE CounterHTTPTotal
          successCounter == IF ifName = "diameter" THEN CounterDiameterSuccess
                            ELSE CounterHTTPSuccess
          failedCounter == IF ifName = "diameter" THEN CounterDiameterFailed
                           ELSE CounterHTTPFailed
          resultCodeCounter == IF ifName = "diameter" THEN CounterDiameterResultCode
                               ELSE CounterHTTPStatusCode
          codes == SelectSeq(codeOrder, LAMBDA code : ifStats.ByResultCode[code] > 0)
      IN  AppendIf(ifStats.Total > 0,
                   createRecord(totalCounter, ToFloat64(ifStats.Total), ifName, timestamp))
          \o AppendIf(ifStats.Success > 0,
                   createRecord(successCounter, ToFloat64(ifStats.Success), ifName, timestamp))
          \o AppendIf(ifStats.Failed > 0,
                   createRecord(failedCounter, ToFloat64(ifStats.Failed), ifName, timestamp))
          \o [i \in 1..Len(codes) |->
                createRecord(resultCodeCounter, ToFloat64(ifStats.ByResultCode[codes[i]]),
                             CauseCodeOf(ifName, codes[i]), timestamp)]

\* the iteration order of one call of transformEIRStats: ifs is the order of
\* the interface keys, codes[ifName] the order of that interface's result codes
IterationOrdersEIR(eirStats) ==
    LET byIf == eirStats.EquipmentChecks.ByInterface
        codeOrders == UNION {SeqsOf(DOMAIN byIf[n].ByResultCode) : n \in DOMAIN byIf}
    IN  {[ifs |-> o, codes |-> c] :
            o \in SeqsOf(DOMAIN byIf),
            c \in {f \in [DOMAIN byIf -> codeOrders] :
                      \A n \in DOMAIN byIf : f[n] \in SeqsOf(DOMAIN byIf[n].ByResultCode)}}

RECURSIVE AllInterfaceRecords(_, _, _, _)
AllInterfaceRecords(eirStats, order, i, timestamp) ==
    IF i > Len(order.ifs) THEN <<>>
    ELSE InterfaceRecords(order.ifs[i], eirStats.EquipmentChecks.ByInterface[order.ifs[i]],
                          order.codes[order.ifs[i]], timestamp)
         \o AllInterfaceRecords(eirStats, order, i + 1, timestamp)

transformEIRStats(eirStats, timestamp, order) ==
    AllInterfaceRecords(eirStats, order, 1, timestamp)
    \o AppendIf(eirStats.CacheStats.Hits > 0,
         createRecord(CounterCacheHits, ToFloat64(eirStats.CacheStats.Hits), "", timestamp))
    \o AppendIf(eirStats.CacheStats.Misses > 0,
         createRecord(CounterCacheMisses, ToFloat64(eirStats.CacheStats.Misses), "", timestamp))
    \o AppendIf(eirStats.CacheStats.HitRate > 0,
         createRecord(CounterCacheHitRate, eirStats.CacheStats.HitRate, "", timestamp))
    \o AppendIf(eirStats.CacheStats.Size > 0,
         createRecord(CounterCacheSize, ToFloat64(eirStats.CacheStats.Size), "", timestamp))
    \o AppendIf(eirStats.DatabaseOps.Queries > 0,
         createRecord(CounterDBQueries, ToFloat64(eirStats.DatabaseOps.Queries), "", timestamp))
    \o AppendIf(eirStats.DatabaseOps.Inserts > 0,
         createRecord(CounterDBInserts, ToFloat64(eirStats.DatabaseOps.Inserts), "", timestamp))
    \o AppendIf(eirStats.DatabaseOps.Updates > 0,
         createRecord(CounterDBUpdates, ToFloat64(eirStats.DatabaseOps.Updates), "", timestamp))
    \o AppendIf(eirStats.DatabaseOps.Deletes > 0,
         createRecord(CounterDBDeletes, ToFloat64(eirStats.DatabaseOps.Deletes), "", timestamp))
    \o AppendIf(MapGet(eirStats.ByEquipmentStatus, "whitelisted", 0) > 0,
         createRecord(CounterWhitelisted,
                      ToFloat64(MapGet(eirStats.ByEquipmentStatus, "whitelisted", 0)),
                      "", timestamp))
    \o AppendIf(MapGet(eirStats.ByEquipmentStatus, "blacklisted", 0) > 0,
         createRecord(CounterBlacklisted,
                      ToFloat64(MapGet(eirStats.ByEquipmentStatus, "blacklisted", 0)),
                      "", timestamp))
    \o AppendIf(MapGet(eirStats.ByEquipmentStatus, "greylisted", 0) > 0,
         createRecord(CounterGreylisted,
                      ToFloat64(MapGet(eirStats.ByEquipmentStatus, "greylisted", 0)),
                      "", timestamp))

\* the records Transform builds before it filters them
TransformCandidates(stats, order) ==
    LET timestamp == stats.Timestamp
    IN  <<createRecord(CounterTotalRequests, ToFloat64(stats.Requests.Total), "", timestamp),
          createRecord(CounterSuccessfulRequests, ToFloat64(stats.Requests.Success), "",
                       timestamp),
          createRecord(CounterFailedRequests, ToFloat64(stats.Requests.Failed), "", timestamp)>>
        \o AppendIf(stats.Requests.Pending > 0,
             createRecord(CounterPendingRequests, ToFloat64(stats.Requests.Pending), "",
                          timestamp))
        \o AppendIf(stats.Connections.Active > 0,
             createRecord(CounterActiveConnections, ToFloat64(stats.Connections.Active), "",
                          timestamp))
        \o AppendIf(stats.Connections.Total > 0,
             createRecord(CounterTotalConnections, ToFloat64(stats.Connections.Total), "",
                          timestamp))
        \o AppendIf(stats.Connections.Failed > 0,
             createRecord(CounterFailedConnections, ToFloat64(stats.Connections.Failed), "",
                          timestamp))
        \o AppendIf(stats.Performance.RequestsPerSecond > 0,
             createRecord(CounterRequestsPerSecond, stats.Performance.RequestsPerSecond, "",
                          timestamp))
        \o AppendIf(stats.Performance.AvgLatencyMs > 0,
             createRecord(CounterAvgLatencyMs, stats.Performance.AvgLatencyMs, "", timestamp))
        \o AppendIf(stats.Performance.MinLatencyMs > 0,
             createRecord(CounterMinLatencyMs, stats.Performance.MinLatencyMs, "", timestamp))
        \o AppendIf(stats.Performance.MaxLatencyMs > 0,
             createRecord(CounterMaxLatencyMs, stats.Performance.MaxLatencyMs, "", timestamp))
        \o AppendIf(stats.Performance.P50LatencyMs > 0,
             createRecord(CounterP50LatencyMs, stats.Performance.P50LatencyMs, "", timestamp))
        \o AppendIf(stats.Performance.P95LatencyMs > 0,
             createRecord(CounterP95LatencyMs, stats.Performance.P95LatencyMs, "", timestamp))
        \o AppendIf(stats.Performance.P99LatencyMs > 0,
             createRecord(CounterP99LatencyMs, stats.Performance.P99LatencyMs, "", timestamp))
        \o (IF HasEIR(stats.CustomMetrics)
            THEN transformEIRStats(GetEIR(stats.CustomMetrics), timestamp, order)
            ELSE <<>>)

\* the iteration orders one call of Transform may take
IterationOrders(stats) ==
    IF HasEIR(stats.CustomMetrics) THEN IterationOrdersEIR(GetEIR(stats.CustomMetrics))
    ELSE {[ifs |-> <<>>, codes |-> EmptyMap]}

\* only the first identifier of the include-list is compared
isIncluded_firstOnly(cfg, counterID) ==
    Len(cfg.IncludeCounters) > 0 /\ cfg.IncludeCounters[1] = counterID

\* the loop over t.config.IncludeCounters
isIncluded(cfg, counterID) ==
    \E i \in 1..Len(cfg.IncludeCounters) : cfg.IncludeCounters[i] = counterID

\* the loop over t.config.ExcludeCounters
isExcluded(cfg, counterID) ==
    \E i \in 1..Len(cfg.ExcludeCounters) : cfg.ExcludeCounters[i] = counterID

\* the include-list is consulted first and keeps what it names
filterRecords_includeWins(cfg, recs) ==
    IF Len(cfg.IncludeCounters) = 0 /\ Len(cfg.ExcludeCounters) = 0 THEN recs
    ELSE SelectSeq(recs, LAMBDA record :
             IF Len(cfg.IncludeCounters) > 0 THEN isIncluded(cfg, record.CounterID)
             ELSE ~isExcluded(cfg, record.CounterID))

\* no filter configured: the records as built; otherwise a record is dropped
\* when its identifier is excluded, and then when an include-list exists and
\* does not name it
filterRecords(cfg, recs) ==
    IF Len(cfg.IncludeCounters) = 0 /\ Len(cfg.ExcludeCounters) = 0 THEN recs
    ELSE SelectSeq(recs, LAMBDA record :
             /\ ~isExcluded(cfg, record.CounterID)
             /\ ~(Len(cfg.IncludeCounters) > 0 /\ ~isIncluded(cfg, record.CounterID)))

Transform(cfg, stats, order) == filterRecords(cfg, TransformCandidates(stats, order))

----------------------------------------------------------------------------
(* The snapshots the collector returns.  Every snapshot is a value of the   *)
(* Go type; the model draws them from: the all-zero snapshot, the snapshots *)
(* that differ from it in one field or one map, and the snapshots whose     *)
(* fields all hold the same non-zero value.                                 *)

\* the structs over `fields` with at most one non-zero field
OneFieldSet(fields) ==
    {[f \in fields |-> IF f = g THEN v ELSE 0] : g \in fields, v \in Val}

ZeroConnections == Uniform(ConnectionFields, 0)

ZeroRequests == RequestStats(Uniform(RequestScalarFields, 0), EmptyMap, EmptyMap)

ZeroPerformance == Uniform(PerformanceFields, 0)

ZeroErrors == ErrorStats(0, EmptyMap, EmptyMap, <<>>)

ZeroEquipmentChecks == EquipmentCheckStats(Uniform(EquipmentCheckScalarFields, 0), EmptyMap)

BySourceSet ==
    {("diameter" :> st) : st \in OneFieldSet(SourceFields)}
    \cup {("diameter" :> Uniform(SourceFields, 1)) @@ ("http" :> Uniform(SourceFields, v)) :
             v \in Val \ {0}}

ByOperationSet ==
    {("check" :> st) : st \in OneFieldSet(OperationFields)}
    \cup {("check" :> Uniform(OperationFields, 1)) @@ ("update" :> Uniform(OperationFields, v)) :
             v \in Val \ {0}}

\* map[string]uint64 over the keys k1, k2
CountMapSet(k1, k2) ==
    {(k1 :> v) : v \in Val}
    \cup {(k2 :> v) : v \in Val \ {0}}
    \cup {(k1 :> 1) @@ (k2 :> v) : v \in Val}

RequestsSet ==
    {RequestStats(sc, EmptyMap, EmptyMap) : sc \in OneFieldSet(RequestScalarFields)}
    \cup {RequestStats(Uniform(RequestScalarFields, 0), m, EmptyMap) : m \in BySourceSet}
    \cup {RequestStats(Uniform(RequestScalarFields, 0), EmptyMap, m) : m \in ByOperationSet}

ErrorsSet ==
    {ErrorStats(v, EmptyMap, EmptyMap, <<>>) : v \in Val}
    \cup {ErrorStats(0, m, EmptyMap, <<>>) : m \in CountMapSet("timeout", "db")}
    \cup {ErrorStats(0, EmptyMap, m, <<>>) : m \in CountMapSet("diameter", "http")}
    \cup {ErrorStats(1, EmptyMap, EmptyMap, <<"timeout">>)}

ByResultCodeSet ==
    {(2001 :> v) : v \in Val}
    \cup {(2001 :> 1) @@ (5012 :> v) : v \in Val \ {0}}

InterfaceCheckSet ==
    {InterfaceCheckStats(st.Total, st.Success, st.Failed, EmptyMap) :
        st \in OneFieldSet(EquipmentCheckScalarFields)}
    \cup {InterfaceCheckStats(0, 0, 0, m) : m \in ByResultCodeSet}

\* EquipmentChecks.ByInterface: "sctp" is an interface transformEIRStats skips
ByInterfaceSet ==
    {("diameter" :> st) : st \in InterfaceCheckSet}
    \cup {("http" :> InterfaceCheckStats(v, 0, 0, (404 :> v))) : v \in Val \ {0}}
    \cup {("sctp" :> InterfaceCheckStats(1, 1, 0, (1 :> 1)))}
    \cup {("diameter" :> InterfaceCheckStats(1, 1, 0, (2001 :> 1)))
          @@ ("http" :> InterfaceCheckStats(v, v, 0, (200 :> v))) : v \in Val \ {0}}

\* every scalar holds v and every map has its entries, all holding v
FullStats(v) ==
    ServiceStats(
        Uniform(ConnectionFields, v),
        RequestStats(Uniform(RequestScalarFields, v),
                     ("diameter" :> Uniform(SourceFields, v)) @@ ("http" :> Uniform(SourceFields, v)),
                     ("check" :> Uniform(OperationFields, v))),
        Uniform(PerformanceFields, v),
        ErrorStats(v, ("timeout" :> v), ("diameter" :> v), <<"timeout">>),
        ("diameter" :> "stats"),
        ("eir" :> EIRValue(
            EIRStats(EquipmentCheckStats(Uniform(EquipmentCheckScalarFields, v),
                         ("diameter" :> InterfaceCheckStats(v, v, v, (2001 :> v) @@ (5012 :> v)))
                         @@ ("http" :> InterfaceCheckStats(v, v, v, (200 :> v)))),
                     Uniform(DatabaseOpsFields, v), Uniform(CacheFields, v),
                     ("whitelisted" :> v) @@ ("blacklisted" :> v) @@ ("greylisted" :> v)))))

WithConnections(c) ==
    ServiceStats(c, ZeroRequests, ZeroPerformance, ZeroErrors, EmptyMap, EmptyMap)

WithRequests(r) ==
    ServiceStats(ZeroConnections, r, ZeroPerformance, ZeroErrors, EmptyMap, EmptyMap)

WithPerformance(p) ==
    ServiceStats(ZeroConnections, ZeroRequests, p, ZeroErrors, EmptyMap, EmptyMap)

WithErrors(e) ==
    ServiceStats(ZeroConnections, ZeroRequests, ZeroPerformance, e, EmptyMap, EmptyMap)

WithEIR(e) ==
    ServiceStats(ZeroConnections, ZeroRequests, ZeroPerformance, ZeroErrors, EmptyMap,
                 ("eir" :> EIRValue(e)))

ZeroStats == WithConnections(ZeroConnections)

\* the part of the statistics that the observed service varies in one behaviour
Profiles ==
    {"connections", "requests", "bySource", "byOperation", "performance", "errors",
     "equipmentChecks", "byInterface", "databaseOps", "cache", "byEquipmentStatus"}

\* the snapshots the collector of a service with this profile returns: the
\* all-zero snapshot, the full snapshots, a snapshot whose extension block is
\* of another type, and the snapshots that vary the profile's part
SnapshotsOf(prof) ==
    {ZeroStats,
     ServiceStats(ZeroConnections, ZeroRequests, ZeroPerformance, ZeroErrors,
                  ("diameter" :> "stats"), ("eir" :> OtherValue))}
    \cup {FullStats(v) : v \in Val \ {0}}
    \cup
    CASE prof = "connections" -> {WithConnections(c) : c \in OneFieldSet(ConnectionFields)}
      [] prof = "requests" ->
           {WithRequests(RequestStats(sc, EmptyMap, EmptyMap)) :
               sc \in OneFieldSet(RequestScalarFields)}
      [] prof = "bySource" ->
           {WithRequests(RequestStats(Uniform(RequestScalarFields, 0), m, EmptyMap)) :
               m \in BySourceSet}
      [] prof = "byOperation" ->
           {WithRequests(RequestStats(Uniform(RequestScalarFields, 0), EmptyMap, m)) :
               m \in ByOperationSet}
      [] prof = "performance" -> {WithPerformance(p) : p \in OneFieldSet(PerformanceFields)}
      [] prof = "errors" -> {WithErrors(e) : e \in ErrorsSet}
      [] prof = "equipmentChecks" ->
           {WithEIR(EIRStats(EquipmentCheckStats(sc, EmptyMap), Uniform(DatabaseOpsFields, 0),
                             Uniform(CacheFields, 0), EmptyMap)) :
               sc \in OneFieldSet(EquipmentCheckScalarFields)}
      [] prof = "byInterface" ->
           {WithEIR(EIRStats(EquipmentCheckStats(Uniform(EquipmentCheckScalarFields, 0), m),
                             Uniform(DatabaseOpsFields, 0), Uniform(CacheFields, 0), EmptyMap)) :
               m \in ByInterfaceSet}
      [] prof = "databaseOps" ->
           {WithEIR(EIRStats(ZeroEquipmentChecks, db, Uniform(CacheFields, 0), EmptyMap)) :
               db \in OneFieldSet(DatabaseOpsFields)}
      [] prof = "cache" ->
           {WithEIR(EIRStats(ZeroEquipmentChecks, Uniform(DatabaseOpsFields, 0), c, EmptyMap)) :
               c \in OneFieldSet(CacheFields)}
      [] prof = "byEquipmentStatus" ->
           {WithEIR(EIRStats(ZeroEquipmentChecks, Uniform(DatabaseOpsFields, 0),
                             Uniform(CacheFields, 0), m)) :
               m \in CountMapSet("whitelisted", "blacklisted")
                     \cup {("greylisted" :> v) : v \in Val}}

----------------------------------------------------------------------------
(* Transformer configurations *)

NoFilter == [IncludeCounters |-> <<>>, ExcludeCounters |-> <<>>]

\* the configurations of the scheduler's transformer: NewTransformer's (no
\* filter) and one with an include-list
SchedulerConfigs ==
    {NoFilter, [IncludeCounters |-> <<CounterCacheHits>>, ExcludeCounters |-> <<>>]}

IncludeLists ==
    {<<>>, <<CounterTotalRequests, CounterSuccessfulRequests>>,
     <<CounterDiameterResultCode, CounterCacheHits, CounterFailedRequests>>}

ExcludeLists ==
    {<<>>, <<CounterFailedRequests>>, <<CounterDiameterResultCode, CounterTotalRequests>>}

TransformerConfigs ==
    {[IncludeCounters |-> inc, ExcludeCounters |-> exc] :
        inc \in IncludeLists, exc \in ExcludeLists}

----------------------------------------------------------------------------
(* The goroutines of the scheduler *)

\* how many run goroutines the model lets Start create
MaxLoops == 2

Loops == 1..MaxLoops

\* the goroutines of the program that call Start and Stop
Callers == {"c1", "c2"}

\* the sinks the program registers: one whose Export succeeds and one whose
\* Export always fails or times out
Sinks == {"good", "bad"}

\* a run goroutine that was not created: no position, no locals
NoLoop ==
    [pc |-> "none", tick |-> FALSE, late |-> FALSE, gotType |-> "", cur |-> <<>>,
     delta |-> <<>>, recs |-> <<>>, copy |-> <<>>, exp |-> [k \in Sinks |-> "idle"],
     batch |-> [k \in Sinks |-> <<>>], outcome |-> "none"]

\* a goroutine that is in neither Start nor Stop
IdleCaller == [pc |-> "idle", exps |-> <<>>, idx |-> 0]

\* NewExportScheduler: not running, the stop channel open, no exporter, and
\* no goroutine yet
NewExportScheduler ==
    /\ running = FALSE
    /\ stopChan = "open"
    /\ panicked = FALSE
    /\ ctxDone = FALSE
    /\ wg = 0
    /\ exporters = <<>>
    /\ callers = [c \in Callers |-> IdleCaller]
    /\ loops = [l \in Loops |-> NoLoop]
    /\ closeCount = [k \in Sinks |-> 0]
    /\ stopped = FALSE
    /\ noopStart = FALSE

\* no Export call is observed: no sink, no records, nothing sent
NoSink == [kind |-> "none", RetryAttempts |-> 0, BatchSize |-> 0]

NoExportCall ==
    /\ exportSink = NoSink
    /\ exportArg = <<>>
    /\ exportCtx = FALSE
    /\ exportPc = "idle"
    /\ attempt = 0
    /\ offset = 0
    /\ transport = <<>>
    /\ delivered = {}
    /\ exportRet = "none"

\* Manager.Load has not returned
NoReturn == [done |-> FALSE, err |-> FALSE, val |-> <<>>]

\* no configuration manager is observed
NoManager ==
    /\ providers = <<>>
    /\ managerCurrent = <<>>
    /\ loadRet = NoReturn

\* no snapshot is in memory
NoRefs == [cur |-> EmptyMap, prev |-> EmptyMap, delta |-> EmptyMap]

NoHeap ==
    /\ heap = EmptyMap
    /\ refs = NoRefs
    /\ cycles = 0

\* the counters of the connection and request blocks
ConnectionCounters == {"Total", "Failed", "Closed"}

RequestCounters == {"Total", "Success", "Failed", "BytesSent", "BytesRecv"}

\* no cycle has run: every sum is 0
NewLedger ==
    [cycles |-> 0,
     Connections |-> [f \in ConnectionCounters |-> [sum |-> 0, monotone |-> TRUE]],
     Requests |-> [f \in RequestCounters |-> [sum |-> 0, monotone |-> TRUE]]]

NoLedger == ledger = NewLedger

\* no event queue is observed
NoQueue ==
    /\ eq = <<>>
    /\ cancelledCtx = {}
    /\ clients = <<>>
    /\ workers = <<>>
    /\ eventObjs = <<>>
    /\ returned = <<>>

----------------------------------------------------------------------------
(* The export scheduler *)

\* NewExportScheduler: the previous-snapshot slot is empty
Init ==
    /\ config \in SchedulerConfigs
    /\ profile \in Profiles
    /\ prevSnapshot = <<>>
    /\ ran = FALSE
    /\ lastPrev = <<>>
    /\ lastCurrent = ZeroStats
    /\ deltaStats = ZeroStats
    /\ candidates = <<>>
    /\ records = <<>>
    /\ NewExportScheduler
    /\ NoExportCall
    /\ NoManager
    /\ NoHeap
    /\ NoLedger
    /\ NoQueue

\* the snapshot slot after a cycle: updatePreviousSnapshot runs only when
\* Transform returned records
SlotAfterCycle(prev, current, recs) ==
    IF Len(recs) = 0 THEN prev ELSE <<current>>

\* exportCycle with a collector that returns the *ServiceStats current
ExportCycle ==
    \E current \in SnapshotsOf(profile) :
      LET delta == calculateDeltaStats(prevSnapshot, current)
      IN  \E order \in IterationOrders(delta) :
            /\ lastPrev' = prevSnapshot
            /\ lastCurrent' = current
            /\ deltaStats' = delta
            /\ candidates' = TransformCandidates(delta, order)
            /\ records' = Transform(config, delta, order)
            /\ prevSnapshot' = SlotAfterCycle(prevSnapshot, current, records')
            /\ ran' = TRUE
            /\ UNCHANGED <<callVars, config, profile>>
            /\ UNCHANGED <<schedVars, callVars>>

Next == ExportCycle

Spec == Init /\ [][Next]_vars

----------------------------------------------------------------------------
(* Transform as a function of its input and of the filter configuration *)

InitTransform ==
    /\ config \in TransformerConfigs
    /\ profile \in Profiles
    /\ prevSnapshot = <<>>
    /\ ran = FALSE
    /\ lastPrev = <<>>
    /\ lastCurrent = ZeroStats
    /\ deltaStats = ZeroStats
    /\ candidates = <<>>
    /\ records = <<>>
    /\ NewExportScheduler
    /\ NoExportCall
    /\ NoManager
    /\ NoHeap
    /\ NoLedger
    /\ NoQueue

TransformCall ==
    \E stats \in SnapshotsOf(profile) :
      \E order \in IterationOrders(stats) :
        /\ deltaStats' = stats
        /\ candidates' = TransformCandidates(stats, order)
        /\ records' = Transform(config, stats, order)
        /\ ran' = TRUE
        /\ UNCHANGED <<callVars, config, profile, prevSnapshot, lastPrev, lastCurrent>>
        /\ UNCHANGED <<schedVars, callVars>>

NextTransform == TransformCall

SpecTransform == InitTransform /\ [][NextTransform]_vars

----------------------------------------------------------------------------
(* The scheduler with its goroutines: Start, Stop and AddExporter called by *)
(* the program, the run loop with its ticker, and one goroutine per sink    *)
(* in the fan-out of a cycle.  A step is one critical section or one        *)
(* channel operation; no lock is held from one step to the next.            *)

\* what GetStats returns: an interface{} holding a *ServiceStats or a value
\* of another type
StatsValue(s) == [type |-> "*ServiceStats", val |-> s]

NotStats == [type |-> "string", val |-> ZeroStats]

CollectorResults == {StatsValue(ZeroStats), StatsValue(FullStats(1)), NotStats}

\* currentStats, ok := statsInterface.(*statsmodel.ServiceStats)
IsServiceStats_always(x) == TRUE

IsServiceStats(x) == x.type = "*ServiceStats"

\* Start returns at once when the scheduler is running
StartRejected_never(isRunning) == FALSE

StartRejected(isRunning) == isRunning

\* where exportCycle goes after Transform: it returns when there is no record
AfterTransform_always(recs) == "update"

AfterTransform(recs) == IF Len(recs) = 0 THEN "select" ELSE "update"

\* the argument of updatePreviousSnapshot
SnapshotToStore_delta(current, delta) == delta

SnapshotToStore(current, delta) == current

\* the sinks of the sequence list
SinksOf(list) == {list[i] : i \in 1..Len(list)}

\* the exporters a cycle's fan-out ranges over: its copy of the list
FanoutTargets_live(loop, live) == SinksOf(live)

FanoutTargets(loop, live) == SinksOf(loop.copy)

\* an Export call has returned
Returned == {"ok", "failed", "timeout"}

\* the context of one sink's Export is done when the parent context is (its
\* own 30 s timeout is the outcome "timeout" of that sink)
exportCtxDone_shared(cancelled, exp, k) ==
    cancelled \/ \E j \in Sinks \ {k} : exp[j] \in {"failed", "timeout"}

exportCtxDone(cancelled, exp, k) == cancelled

\* what Export of sink k may return
ExportOutcomes(k, done) ==
    IF k = "bad" THEN {"failed", "timeout"}
    ELSE IF done THEN {"ok", "failed"} ELSE {"ok"}

\* exportCycle returns to the select of run: its locals are gone; how it
\* ended is kept
EndOfCycle(loop, how) ==
    [NoLoop EXCEPT !.pc = "select", !.tick = loop.tick, !.gotType = loop.gotType,
                   !.outcome = how]

\* the run goroutine l is inside exportCycle
InCycle(loop) == loop.pc \in {"cycle", "update", "fanout"}

\* the run goroutines not yet created
FreeLoops == {l \in Loops : loops[l].pc = "none"}

\* the Start calls that set the flag and have not yet created their goroutine
PendingStarts == {c \in Callers : callers[c].pc = "start_go"}

cycleVars == <<profile, ran, lastPrev, lastCurrent, deltaStats, candidates, records>>

InitSched ==
    /\ config \in SchedulerConfigs
    /\ profile = "cache"
    /\ prevSnapshot = <<>>
    /\ ran = FALSE
    /\ lastPrev = <<>>
    /\ lastCurrent = ZeroStats
    /\ deltaStats = ZeroStats
    /\ candidates = <<>>
    /\ records = <<>>
    /\ NewExportScheduler
    /\ NoExportCall
    /\ NoManager
    /\ NoHeap
    /\ NoLedger
    /\ NoQueue

\* the order in which the program registers its sinks
RegistrationOrder == <<"good", "bad">>

\* AddExporter: append under s.mu
AddExporter(e) ==
    /\ ~panicked
    /\ Len(exporters) < Len(RegistrationOrder)
    /\ e = RegistrationOrder[Len(exporters) + 1]
    /\ exporters' = Append(exporters, e)
    /\ UNCHANGED <<callVars, config, prevSnapshot, cycleVars, running, stopChan, panicked, ctxDone, wg,
                   callers, loops, closeCount, stopped, noopStart>>

\* Start, the critical section: return when running, else set the flag.
\* The model has MaxLoops run goroutines: a call that would need one more is
\* not taken
StartLock(c) ==
    /\ ~panicked
    /\ callers[c].pc = "idle"
    /\ Cardinality(FreeLoops) > Cardinality(PendingStarts)
    /\ IF StartRejected(running)
       THEN /\ noopStart' = TRUE
            /\ UNCHANGED <<running, callers>>
       ELSE /\ running' = TRUE
            /\ callers' = [callers EXCEPT ![c].pc = "start_go"]
            /\ UNCHANGED noopStart
    /\ UNCHANGED <<callVars, config, prevSnapshot, cycleVars, stopChan, panicked, ctxDone, wg, exporters,
                   loops, closeCount, stopped>>

\* Start, after the unlock: s.wg.Add(1); go s.run(ctx).  run creates its
\* ticker and reaches the select
StartGo(c) ==
    /\ ~panicked
    /\ callers[c].pc = "start_go"
    /\ \E l \in FreeLoops :
          /\ \A m \in FreeLoops : l <= m
          /\ loops' = [loops EXCEPT ![l].pc = "select"]
    /\ wg' = wg + 1
    /\ callers' = [callers EXCEPT ![c].pc = "idle"]
    /\ UNCHANGED <<callVars, config, prevSnapshot, cycleVars, running, stopChan, panicked, ctxDone,
                   exporters, closeCount, stopped, noopStart>>

\* Stop, the critical section: return when not running, else clear the flag
StopLock(c) ==
    /\ ~panicked
    /\ callers[c].pc = "idle"
    /\ IF ~running
       THEN UNCHANGED <<running, callers, stopped>>
       ELSE /\ running' = FALSE
            /\ stopped' = TRUE
            /\ callers' = [callers EXCEPT ![c].pc = "stop_close"]
    /\ UNCHANGED <<callVars, config, prevSnapshot, cycleVars, stopChan, panicked, ctxDone, wg, exporters,
                   loops, closeCount, noopStart>>

\* Stop: close(s.stopChan); closing a closed channel panics
StopClose(c) ==
    /\ ~panicked
    /\ callers[c].pc = "stop_close"
    /\ IF stopChan = "closed"
       THEN /\ panicked' = TRUE
            /\ UNCHANGED <<stopChan, callers>>
       ELSE /\ stopChan' = "closed"
            /\ callers' = [callers EXCEPT ![c].pc = "stop_wait"]
            /\ UNCHANGED panicked
    /\ UNCHANGED <<callVars, config, prevSnapshot, cycleVars, running, ctxDone, wg, exporters, loops,
                   closeCount, stopped, noopStart>>

\* Stop: s.wg.Wait() returns when the counter is 0; then the exporter list is
\* read under s.mu
StopWait(c) ==
    /\ ~panicked
    /\ callers[c].pc = "stop_wait"
    /\ wg = 0
    /\ callers' = [callers EXCEPT ![c] = [pc |-> "stop_closing", exps |-> exporters, idx |-> 1]]
    /\ UNCHANGED <<callVars, config, prevSnapshot, cycleVars, running, stopChan, panicked, ctxDone, wg,
                   exporters, loops, closeCount, stopped, noopStart>>

\* Stop: one iteration of the loop that calls exporter.Close(), or the return
StopCloseExporter(c) ==
    /\ ~panicked
    /\ callers[c].pc = "stop_closing"
    /\ IF callers[c].idx <= Len(callers[c].exps)
       THEN /\ closeCount' = [closeCount EXCEPT ![callers[c].exps[callers[c].idx]] = @ + 1]
            /\ callers' = [callers EXCEPT ![c].idx = @ + 1]
       ELSE /\ callers' = [callers EXCEPT ![c] = IdleCaller]
            /\ UNCHANGED closeCount
    /\ UNCHANGED <<callVars, config, prevSnapshot, cycleVars, running, stopChan, panicked, ctxDone, wg,
                   exporters, loops, stopped, noopStart>>

\* the context given to Start is cancelled
CancelContext ==
    /\ ~panicked
    /\ ~ctxDone
    /\ \E l \in Loops : loops[l].pc # "none"
    /\ ctxDone' = TRUE
    /\ UNCHANGED <<callVars, config, prevSnapshot, cycleVars, running, stopChan, panicked, wg, exporters,
                   callers, loops, closeCount, stopped, noopStart>>

\* the ticker of run goroutine l sends on ticker.C (a channel of capacity 1)
Tick(l) ==
    /\ ~panicked
    /\ loops[l].pc \notin {"none", "exited"}
    /\ ~loops[l].tick
    /\ loops' = [loops EXCEPT ![l].tick = TRUE]
    /\ UNCHANGED <<callVars, config, prevSnapshot, cycleVars, running, stopChan, panicked, ctxDone, wg,
                   exporters, callers, closeCount, stopped, noopStart>>

\* run returns from its select on <-ctx.Done() or <-s.stopChan only; how the
\* last cycle ended plays no part
RunReturns_onFailure(loop, cancelled, chan) ==
    cancelled \/ chan = "closed" \/ loop.outcome \in {"aborted", "exported"}

RunReturns(loop, cancelled, chan) == cancelled \/ chan = "closed"

\* run: the select takes <-ctx.Done() or <-s.stopChan and returns
\* (defer s.wg.Done())
RunExit(l) ==
    /\ ~panicked
    /\ loops[l].pc = "select"
    /\ RunReturns(loops[l], ctxDone, stopChan)
    /\ loops' = [loops EXCEPT ![l].pc = "exited"]
    /\ wg' = wg - 1
    /\ UNCHANGED <<callVars, config, prevSnapshot, cycleVars, running, stopChan, panicked, ctxDone,
                   exporters, callers, closeCount, stopped, noopStart>>

\* run: the select takes <-ticker.C and calls exportCycle; select chooses
\* among its ready cases, so a closed stopChan does not disable this step
RunTick(l) ==
    /\ ~panicked
    /\ loops[l].pc = "select"
    /\ loops[l].tick
    /\ loops' = [loops EXCEPT ![l] =
                    [NoLoop EXCEPT !.pc = "cycle", !.outcome = "running",
                                   !.late = (ctxDone \/ stopChan = "closed")]]
    /\ UNCHANGED <<callVars, config, prevSnapshot, cycleVars, running, stopChan, panicked, ctxDone, wg,
                   exporters, callers, closeCount, stopped, noopStart>>

\* exportCycle up to the test of len(records): GetStats, the type assertion,
\* calculateDeltaStats (reads the slot under snapshotMutex) and Transform
CycleCollect(l, got) ==
    /\ ~panicked
    /\ loops[l].pc = "cycle"
    /\   IF ~IsServiceStats(got)
         THEN loops' = [loops EXCEPT ![l] =
                          EndOfCycle([loops[l] EXCEPT !.gotType = got.type], "aborted")]
         ELSE LET current == got.val
                  delta == calculateDeltaStats(prevSnapshot, current)
              IN  \E order \in IterationOrders(delta) :
                    LET recs == Transform(config, delta, order)
                    IN  loops' = [loops EXCEPT ![l] =
                                    IF AfterTransform(recs) = "select"
                                    THEN EndOfCycle([loops[l] EXCEPT !.gotType = got.type],
                                                    "empty")
                                    ELSE [loops[l] EXCEPT
                                            !.pc = AfterTransform(recs),
                                            !.gotType = got.type,
                                            !.cur = <<current>>,
                                            !.delta = <<delta>>,
                                            !.recs = recs]]
    /\ UNCHANGED <<callVars, config, prevSnapshot, cycleVars, running, stopChan, panicked, ctxDone, wg,
                   exporters, callers, closeCount, stopped, noopStart>>

\* exportCycle: s.updatePreviousSnapshot(currentStats), then the exporter
\* list is copied under s.mu.  The two critical sections are one step: the
\* copy reads only the list, which only AddExporter writes, and AddExporter
\* reads nothing
CycleUpdate(l) ==
    /\ ~panicked
    /\ loops[l].pc = "update"
    /\ prevSnapshot' = <<SnapshotToStore(loops[l].cur[1], loops[l].delta[1])>>
    /\ loops' = [loops EXCEPT ![l].pc = "fanout", ![l].copy = exporters]
    /\ UNCHANGED <<callVars, config, cycleVars, running, stopChan, panicked, ctxDone, wg, exporters,
                   callers, closeCount, stopped, noopStart>>

\* the goroutine of sink k in the fan-out of l calls exporter.Export with the
\* records of the cycle
ExportInvoke(l, k) ==
    /\ ~panicked
    /\ loops[l].pc = "fanout"
    /\ k \in FanoutTargets(loops[l], exporters)
    /\ loops[l].exp[k] = "idle"
    /\ loops' = [loops EXCEPT ![l].exp[k] = "inflight", ![l].batch[k] = loops[l].recs]
    /\ UNCHANGED <<callVars, config, prevSnapshot, cycleVars, running, stopChan, panicked, ctxDone, wg,
                   exporters, callers, closeCount, stopped, noopStart>>

\* Export of sink k returns; exportToExporter logs the outcome
ExportReturn(l, k) ==
    /\ ~panicked
    /\ loops[l].pc = "fanout"
    /\ loops[l].exp[k] = "inflight"
    /\ \E r \in ExportOutcomes(k, exportCtxDone(ctxDone, loops[l].exp, k)) :
          loops' = [loops EXCEPT ![l].exp[k] = r]
    /\ UNCHANGED <<callVars, config, prevSnapshot, cycleVars, running, stopChan, panicked, ctxDone, wg,
                   exporters, callers, closeCount, stopped, noopStart>>

\* exportCycle: wg.Wait() returns when every sink goroutine is done
CycleDone(l) ==
    /\ ~panicked
    /\ loops[l].pc = "fanout"
    /\ \A k \in FanoutTargets(loops[l], exporters) : loops[l].exp[k] \in Returned
    /\ loops' = [loops EXCEPT ![l] = EndOfCycle(loops[l], "exported")]
    /\ UNCHANGED <<callVars, config, prevSnapshot, cycleVars, running, stopChan, panicked, ctxDone, wg,
                   exporters, callers, closeCount, stopped, noopStart>>

NextSched ==
    \/ \E e \in Sinks : AddExporter(e)
    \/ \E c \in Callers : ~stopped /\ StartLock(c)
    \/ \E c \in Callers : StartGo(c)
    \/ \E c \in Callers : StopLock(c)
    \/ \E c \in Callers : StopClose(c)
    \/ \E c \in Callers : StopWait(c)
    \/ \E c \in Callers : StopCloseExporter(c)
    \/ CancelContext
    \/ \E l \in Loops : Tick(l)
    \/ \E l \in Loops : RunExit(l)
    \/ \E l \in Loops : RunTick(l)
    \/ \E l \in Loops, got \in CollectorResults : CycleCollect(l, got)
    \/ \E l \in Loops : CycleUpdate(l)
    \/ \E l \in Loops, k \in Sinks : ExportInvoke(l, k)
    \/ \E l \in Loops, k \in Sinks : ExportReturn(l, k)
    \/ \E l \in Loops : CycleDone(l)

\* the scheduler as the program uses it: Start is not called on a scheduler
\* that Stop was called on (a fresh scheduler is constructed instead)
SpecSched == InitSched /\ [][NextSched]_vars

\* a scheduler with one sink and a collector that returns one snapshot, on
\* which the program calls Start and Stop in any order
InitRestart ==
    /\ InitSched
    /\ config = NoFilter

NextRestart ==
    \/ AddExporter("good")
    \/ \E c \in Callers : StartLock(c)
    \/ \E c \in Callers : StartGo(c)
    \/ \E c \in Callers : StopLock(c)
    \/ \E c \in Callers : StopClose(c)
    \/ \E c \in Callers : StopWait(c)
    \/ \E c \in Callers : StopCloseExporter(c)
    \/ \E l \in Loops : Tick(l)
    \/ \E l \in Loops : RunExit(l)
    \/ \E l \in Loops : RunTick(l)
    \/ \E l \in Loops : CycleCollect(l, StatsValue(FullStats(1)))
    \/ \E l \in Loops : CycleUpdate(l)
    \/ \E l \in Loops : ExportInvoke(l, "good")
    \/ \E l \in Loops : ExportReturn(l, "good")
    \/ \E l \in Loops : CycleDone(l)

SpecRestart == InitRestart /\ [][NextRestart]_vars

----------------------------------------------------------------------------
(* Reading a snapshot field by field.  A path names one field of a         *)
(* snapshot: a scalar of a struct, or one entry of a breakdown map.  A read *)
(* follows Go: a missing map key, or a missing extension block, reads as    *)
(* the zero value.                                                          *)

Path(kind, key, code, field) == [kind |-> kind, key |-> key, code |-> code, field |-> field]

EIROf(s) == IF HasEIR(s.CustomMetrics) THEN GetEIR(s.CustomMetrics) ELSE ZeroEIRStats

FieldAt(s, p) ==
    CASE p.kind = "Connections" -> s.Connections[p.field]
      [] p.kind = "Requests" -> s.Requests[p.field]
      [] p.kind = "Performance" -> s.Performance[p.field]
      [] p.kind = "Errors" -> s.Errors.Total
      [] p.kind = "BySource" -> MapGet(s.Requests.BySource, p.key, ZeroSourceStats)[p.field]
      [] p.kind = "ByOperation" ->
           MapGet(s.Requests.ByOperation, p.key, ZeroOperationStats)[p.field]
      [] p.kind = "ErrorsByType" -> MapGet(s.Errors.ByType, p.key, 0)
      [] p.kind = "ErrorsByInterface" -> MapGet(s.Errors.ByInterface, p.key, 0)
      [] p.kind = "EquipmentChecks" -> EIROf(s).EquipmentChecks[p.field]
      [] p.kind = "ByInterface" ->
           MapGet(EIROf(s).EquipmentChecks.ByInterface, p.key, ZeroInterfaceCheckStats)[p.field]
      [] p.kind = "ByResultCode" ->
           MapGet(MapGet(EIROf(s).EquipmentChecks.ByInterface, p.key,
                         ZeroInterfaceCheckStats).ByResultCode, p.code, 0)
      [] p.kind = "CacheStats" -> EIROf(s).CacheStats[p.field]
      [] p.kind = "DatabaseOps" -> EIROf(s).DatabaseOps[p.field]
      [] p.kind = "ByEquipmentStatus" -> MapGet(EIROf(s).ByEquipmentStatus, p.key, 0)

CounterSubFields == {"Total", "Success", "Failed"}

\* the counters of s that calculateDeltaStats and calculateEIRDelta difference
CounterPaths(s) ==
    {Path("Connections", "", 0, f) : f \in {"Total", "Failed"}}
    \cup {Path("Requests", "", 0, f) : f \in CounterSubFields}
    \cup {Path("Errors", "", 0, "Total")}
    \cup {Path("BySource", k, 0, f) : k \in DOMAIN s.Requests.BySource, f \in CounterSubFields}
    \cup {Path("ByOperation", k, 0, f) :
             k \in DOMAIN s.Requests.ByOperation, f \in CounterSubFields}
    \cup {Path("ErrorsByType", k, 0, "") : k \in DOMAIN s.Errors.ByType}
    \cup {Path("ErrorsByInterface", k, 0, "") : k \in DOMAIN s.Errors.ByInterface}
    \cup {Path("EquipmentChecks", "", 0, f) : f \in CounterSubFields}
    \cup {Path("ByInterface", k, 0, f) :
             k \in DOMAIN EIROf(s).EquipmentChecks.ByInterface, f \in CounterSubFields}
    \cup UNION {{Path("ByResultCode", k, c, "") :
                    c \in DOMAIN EIROf(s).EquipmentChecks.ByInterface[k].ByResultCode} :
                k \in DOMAIN EIROf(s).EquipmentChecks.ByInterface}
    \cup {Path("CacheStats", "", 0, f) : f \in {"Hits", "Misses"}}
    \cup {Path("DatabaseOps", "", 0, f) : f \in {"Queries", "Inserts", "Updates", "Deletes"}}
    \cup {Path("ByEquipmentStatus", k, 0, "") : k \in DOMAIN EIROf(s).ByEquipmentStatus}

\* the gauges of a snapshot
GaugePaths ==
    {Path("Connections", "", 0, "Active"), Path("Requests", "", 0, "Pending")}
    \cup {Path("Performance", "", 0, f) : f \in PerformanceFields}
    \cup {Path("CacheStats", "", 0, f) : f \in {"HitRate", "Size"}}

\* an exported metric: the identifier and dimension tag of its record and the
\* field the record's value comes from
Metric(counterID, causeCode, path) ==
    [CounterID |-> counterID, CauseCode |-> causeCode, path |-> path]

\* the counter-type metrics (GetCounterMetadata: Type "counter") that
\* Transform exports for the snapshot s
CounterMetrics(s) ==
    {Metric(CounterTotalRequests, "", Path("Requests", "", 0, "Total")),
     Metric(CounterSuccessfulRequests, "", Path("Requests", "", 0, "Success")),
     Metric(CounterFailedRequests, "", Path("Requests", "", 0, "Failed")),
     Metric(CounterTotalConnections, "", Path("Connections", "", 0, "Total")),
     Metric(CounterFailedConnections, "", Path("Connections", "", 0, "Failed")),
     Metric(CounterCacheHits, "", Path("CacheStats", "", 0, "Hits")),
     Metric(CounterCacheMisses, "", Path("CacheStats", "", 0, "Misses")),
     Metric(CounterDBQueries, "", Path("DatabaseOps", "", 0, "Queries")),
     Metric(CounterDBInserts, "", Path("DatabaseOps", "", 0, "Inserts")),
     Metric(CounterDBUpdates, "", Path("DatabaseOps", "", 0, "Updates")),
     Metric(CounterDBDeletes, "", Path("DatabaseOps", "", 0, "Deletes")),
     Metric(CounterWhitelisted, "", Path("ByEquipmentStatus", "whitelisted", 0, "")),
     Metric(CounterBlacklisted, "", Path("ByEquipmentStatus", "blacklisted", 0, "")),
     Metric(CounterGreylisted, "", Path("ByEquipmentStatus", "greylisted", 0, "")),
     Metric(CounterDiameterTotal, "diameter", Path("ByInterface", "diameter", 0, "Total")),
     Metric(CounterDiameterSuccess, "diameter", Path("ByInterface", "diameter", 0, "Success")),
     Metric(CounterDiameterFailed, "diameter", Path("ByInterface", "diameter", 0, "Failed")),
     Metric(CounterHTTPTotal, "http", Path("ByInterface", "http", 0, "Total")),
     Metric(CounterHTTPSuccess, "http", Path("ByInterface", "http", 0, "Success")),
     Metric(CounterHTTPFailed, "http", Path("ByInterface", "http", 0, "Failed"))}
    \cup {Metric(CounterDiameterResultCode, CauseCodeOf("diameter", c),
                 Path("ByResultCode", "diameter", c, "")) :
            c \in DOMAIN MapGet(EIROf(s).EquipmentChecks.ByInterface, "diameter",
                                ZeroInterfaceCheckStats).ByResultCode}
    \cup {Metric(CounterHTTPStatusCode, CauseCodeOf("http", c),
                 Path("ByResultCode", "http", c, "")) :
            c \in DOMAIN MapGet(EIROf(s).EquipmentChecks.ByInterface, "http",
                                ZeroInterfaceCheckStats).ByResultCode}

\* the indexes of the records of recs that carry the metric m
RecordsOf(recs, m) ==
    {i \in 1..Len(recs) : recs[i].CounterID = m.CounterID /\ recs[i].CauseCode = m.CauseCode}

\* the previous snapshot the last cycle differenced against
Prev == lastPrev[1]

----------------------------------------------------------------------------
(* The properties *)

\* the counters of either snapshot of the last cycle
CyclePaths == CounterPaths(lastCurrent) \cup CounterPaths(Prev)

\* C1: whenever a counter's current value is below its previous value, the
\* delta of that counter is exactly 0: safeSub64 returns 0 for every a < b,
\* and every counter that calculateDeltaStats differences is 0 in the delta
\* snapshot, never negative and never a wrapped-around large value.
C1_ResetCounterDeltaIsZero ==
    /\ \A a, b \in Val : a < b => safeSub64(a, b) = 0
    /\ (ran /\ lastPrev # <<>>) =>
         \A p \in CyclePaths :
            FieldAt(lastCurrent, p) < FieldAt(Prev, p) => FieldAt(deltaStats, p) = 0

\* a cycle differenced a counter that fell from 2 to 1 (and one of a per-key
\* breakdown that fell) against a stored previous snapshot
C1_Witness ==
    /\ ran /\ lastPrev # <<>>
    /\ \E p \in CyclePaths :
          /\ p.kind = "Requests"
          /\ FieldAt(Prev, p) = 2 /\ FieldAt(lastCurrent, p) = 1
          /\ FieldAt(deltaStats, p) = 0

C3_GaugesVerbatim ==
    ran => \A p \in GaugePaths : FieldAt(deltaStats, p) = FieldAt(lastCurrent, p)

\* a cycle whose previous snapshot held a greater active-connection count
C3_Witness ==
    /\ ran /\ lastPrev # <<>>
    /\ Prev.Connections.Active = 2 /\ lastCurrent.Connections.Active = 1
    /\ deltaStats.Connections.Active = 1

\* C4: a cycle that finds the previous-snapshot slot empty gets the current
\* snapshot itself as its delta, equal in every field.
C4_FirstCycleDeltaIsCurrent ==
    (ran /\ lastPrev = <<>>) => deltaStats = lastCurrent

\* the first cycle of a scheduler, on a snapshot with every field non-zero
C4_Witness ==
    /\ ran /\ lastPrev = <<>>
    /\ lastCurrent = FullStats(1)
    /\ deltaStats = FullStats(1)
    /\ prevSnapshot = <<FullStats(1)>>

\* the keys of the map cur that the map prev lacks
NewKeys(cur, prev) == DOMAIN cur \ DOMAIN prev

\* the entries of the result-code map d read as those of c
SameCounts(d, c) == \A code \in DOMAIN c \cup DOMAIN d : MapGet(d, code, 0) = MapGet(c, code, 0)

\* C5: in every breakdown map of the delta snapshot (BySource, ByOperation,
\* the error maps, the per-interface checks, ByResultCode, ByEquipmentStatus)
\* a key that the current snapshot has and the previous one lacks holds the
\* current value in every sub-field.
C5_NewKeyDeltaIsCurrent ==
    (ran /\ lastPrev # <<>>) =>
      LET cur == lastCurrent
          curEIR == EIROf(lastCurrent)
          prevEIR == EIROf(Prev)
          deltaEIR == EIROf(deltaStats)
      IN
      /\ \A k \in NewKeys(cur.Requests.BySource, Prev.Requests.BySource) :
            MapGet(deltaStats.Requests.BySource, k, ZeroSourceStats) = cur.Requests.BySource[k]
      /\ \A k \in NewKeys(cur.Requests.ByOperation, Prev.Requests.ByOperation) :
            MapGet(deltaStats.Requests.ByOperation, k, ZeroOperationStats)
               = cur.Requests.ByOperation[k]
      /\ \A k \in NewKeys(cur.Errors.ByType, Prev.Errors.ByType) :
            MapGet(deltaStats.Errors.ByType, k, 0) = cur.Errors.ByType[k]
      /\ \A k \in NewKeys(cur.Errors.ByInterface, Prev.Errors.ByInterface) :
            MapGet(deltaStats.Errors.ByInterface, k, 0) = cur.Errors.ByInterface[k]
      /\ \A k \in NewKeys(curEIR.EquipmentChecks.ByInterface, prevEIR.EquipmentChecks.ByInterface) :
            LET d == MapGet(deltaEIR.EquipmentChecks.ByInterface, k, ZeroInterfaceCheckStats)
                c == curEIR.EquipmentChecks.ByInterface[k]
            IN  /\ d.Total = c.Total /\ d.Success = c.Success /\ d.Failed = c.Failed
                /\ SameCounts(d.ByResultCode, c.ByResultCode)
      /\ \A k \in DOMAIN curEIR.EquipmentChecks.ByInterface
                    \cap DOMAIN prevEIR.EquipmentChecks.ByInterface :
            LET d == MapGet(deltaEIR.EquipmentChecks.ByInterface, k, ZeroInterfaceCheckStats)
                c == curEIR.EquipmentChecks.ByInterface[k]
                q == prevEIR.EquipmentChecks.ByInterface[k]
            IN  \A code \in NewKeys(c.ByResultCode, q.ByResultCode) :
                   MapGet(d.ByResultCode, code, 0) = c.ByResultCode[code]
      /\ \A k \in NewKeys(curEIR.ByEquipmentStatus, prevEIR.ByEquipmentStatus) :
            MapGet(deltaEIR.ByEquipmentStatus, k, 0) = curEIR.ByEquipmentStatus[k]

\* the counter sub-fields of a new key (Total, Success, Failed, and every
\* count of a count map) do hold the current value
NewKeyCountersAreCurrent ==
    (ran /\ lastPrev # <<>>) =>
      \A p \in CounterPaths(lastCurrent) \ CounterPaths(Prev) :
         FieldAt(deltaStats, p) = FieldAt(lastCurrent, p)

\* the dimension key of the path p is present in the snapshot s
KeyPresent(s, p) ==
    CASE p.kind = "ByInterface" -> p.key \in DOMAIN EIROf(s).EquipmentChecks.ByInterface
      [] p.kind = "ByResultCode" ->
           /\ p.key \in DOMAIN EIROf(s).EquipmentChecks.ByInterface
           /\ p.code \in DOMAIN EIROf(s).EquipmentChecks.ByInterface[p.key].ByResultCode
      [] p.kind = "ByEquipmentStatus" -> p.key \in DOMAIN EIROf(s).ByEquipmentStatus
      [] OTHER -> TRUE

\* the keys of the map prev that the map cur lacks are not keys of delta
NoGoneKey(delta, cur, prev) == (DOMAIN prev \ DOMAIN cur) \cap DOMAIN delta = {}

\* C6: a dimension key that only the previous snapshot has is a key of no
\* breakdown map of the delta snapshot, and Transform builds no record for it.
C6_GoneKeyDropped ==
    (ran /\ lastPrev # <<>>) =>
      LET cur == lastCurrent
          curIf == EIROf(lastCurrent).EquipmentChecks.ByInterface
          prevIf == EIROf(Prev).EquipmentChecks.ByInterface
          deltaIf == EIROf(deltaStats).EquipmentChecks.ByInterface
      IN
      /\ NoGoneKey(deltaStats.Requests.BySource, cur.Requests.BySource, Prev.Requests.BySource)
      /\ NoGoneKey(deltaStats.Requests.ByOperation, cur.Requests.ByOperation,
                   Prev.Requests.ByOperation)
      /\ NoGoneKey(deltaStats.Errors.ByType, cur.Errors.ByType, Prev.Errors.ByType)
      /\ NoGoneKey(deltaStats.Errors.ByInterface, cur.Errors.ByInterface,
                   Prev.Errors.ByInterface)
      /\ NoGoneKey(deltaIf, curIf, prevIf)
      /\ \A k \in DOMAIN deltaIf \cap DOMAIN prevIf :
            NoGoneKey(deltaIf[k].ByResultCode, curIf[k].ByResultCode, prevIf[k].ByResultCode)
      /\ NoGoneKey(EIROf(deltaStats).ByEquipmentStatus, EIROf(cur).ByEquipmentStatus,
                   EIROf(Prev).ByEquipmentStatus)
      /\ \A m \in CounterMetrics(Prev) :
            (KeyPresent(Prev, m.path) /\ ~KeyPresent(cur, m.path)) =>
               RecordsOf(candidates, m) = {} /\ RecordsOf(records, m) = {}

\* the previous snapshot has the interfaces diameter and http, the current
\* one only diameter: the delta has diameter alone and no http record is built
C6_Witness ==
    /\ ran /\ lastPrev # <<>>
    /\ DOMAIN EIROf(Prev).EquipmentChecks.ByInterface = {"diameter", "http"}
    /\ Prev.Requests.BySource = EmptyMap
    /\ EIROf(Prev).EquipmentChecks.ByInterface["http"].Total > 0
    /\ DOMAIN EIROf(lastCurrent).EquipmentChecks.ByInterface = {"diameter"}
    /\ DOMAIN EIROf(deltaStats).EquipmentChecks.ByInterface = {"diameter"}
    /\ \A i \in 1..Len(candidates) : candidates[i].CauseCode # "http"
    /\ Len(candidates) > 3

\* the gauge-type metrics (GetCounterMetadata: Type "gauge") that the claim
\* C8 names, for the snapshot s: the cache gauges are defined when s carries
\* the EIR block
GaugeMetrics(s) ==
    {Metric(CounterActiveConnections, "", Path("Connections", "", 0, "Active")),
     Metric(CounterRequestsPerSecond, "", Path("Performance", "", 0, "RequestsPerSecond"))}
    \cup (IF HasEIR(s.CustomMetrics)
          THEN {Metric(CounterCacheHitRate, "", Path("CacheStats", "", 0, "HitRate")),
                Metric(CounterCacheSize, "", Path("CacheStats", "", 0, "Size"))}
          ELSE {})

\* the three request counters Transform appends without a test of the value
RequestMetrics ==
    {Metric(CounterTotalRequests, "", Path("Requests", "", 0, "Total")),
     Metric(CounterSuccessfulRequests, "", Path("Requests", "", 0, "Success")),
     Metric(CounterFailedRequests, "", Path("Requests", "", 0, "Failed"))}

\* recs holds no record of m when the field is 0 and exactly one, carrying
\* the value, otherwise
SuppressedWhenZero(s, recs, m) ==
    IF FieldAt(s, m.path) = 0 THEN RecordsOf(recs, m) = {}
    ELSE /\ Cardinality(RecordsOf(recs, m)) = 1
         /\ \A i \in RecordsOf(recs, m) : recs[i].Value = FieldAt(s, m.path)

\* recs holds exactly one record of m, carrying the field's value
AlwaysExported(s, recs, m) ==
    /\ Cardinality(RecordsOf(recs, m)) = 1
    /\ \A i \in RecordsOf(recs, m) : recs[i].Value = FieldAt(s, m.path)

\* C7: without a filter, Transform returns no record for a counter-type
\* field whose value is 0 (total, successful and failed requests included)
\* and exactly one record carrying the value when the field is non-zero.
C7_ZeroCounterNoRecord ==
    (ran /\ config = NoFilter) =>
       \A m \in CounterMetrics(deltaStats) : SuppressedWhenZero(deltaStats, records, m)

\* every counter other than the three request counters is suppressed at 0
\* and exported once otherwise
ZeroCounterNoRecordButRequests ==
    (ran /\ config = NoFilter) =>
       \A m \in CounterMetrics(deltaStats) \ RequestMetrics :
          SuppressedWhenZero(deltaStats, records, m)

\* C8: without a filter, Transform returns exactly one record for each of
\* the gauges active connections, requests per second, cache hit rate and
\* cache size that the snapshot defines, carrying the value, also when the
\* value is 0.
C8_GaugeAlwaysExported ==
    (ran /\ config = NoFilter) =>
       \A m \in GaugeMetrics(deltaStats) : AlwaysExported(deltaStats, records, m)

\* a gauge that is not 0 has exactly one record, carrying the value
NonZeroGaugeExported ==
    (ran /\ config = NoFilter) =>
       \A m \in GaugeMetrics(deltaStats) :
          FieldAt(deltaStats, m.path) # 0 => AlwaysExported(deltaStats, records, m)

\* the identifier id is an element of the list
OnList(list, id) == id \in {list[i] : i \in 1..Len(list)}

\* C9: with a non-empty include-list and an empty exclude-list, Transform
\* returns exactly the candidate records whose identifier is on the
\* include-list, in their order: none with another identifier, and none of
\* the listed ones missing.
C9_IncludeListOnly ==
    (ran /\ Len(config.IncludeCounters) > 0 /\ Len(config.ExcludeCounters) = 0) =>
       /\ \A i \in 1..Len(records) : OnList(config.IncludeCounters, records[i].CounterID)
       /\ records = SelectSeq(candidates,
                       LAMBDA r : OnList(config.IncludeCounters, r.CounterID))

\* a snapshot with more than three non-zero fields under the include-list of
\* total and successful requests: the two records survive and nothing else
C9_Witness ==
    /\ ran
    /\ config = [IncludeCounters |-> <<CounterTotalRequests, CounterSuccessfulRequests>>,
                 ExcludeCounters |-> <<>>]
    /\ Len(candidates) > 5
    /\ Len(records) = 2
    /\ records[1].CounterID = CounterTotalRequests
    /\ records[2].CounterID = CounterSuccessfulRequests

\* C10: Transform returns no record whose identifier is on the exclude-list,
\* be the record scalar or a dimension-breakdown record, and be the
\* identifier on the include-list as well or not.
C10_ExcludeWins ==
    ran => \A i \in 1..Len(records) : ~OnList(config.ExcludeCounters, records[i].CounterID)

\* the diameter result-code identifier is on both lists and the snapshot has
\* a result-code breakdown record for it; total requests (scalar) is
\* excluded too; neither is returned while an included identifier is
C10_Witness ==
    /\ ran
    /\ OnList(config.ExcludeCounters, CounterDiameterResultCode)
    /\ OnList(config.IncludeCounters, CounterDiameterResultCode)
    /\ OnList(config.ExcludeCounters, CounterTotalRequests)
    /\ \E i \in 1..Len(candidates) :
          /\ candidates[i].CounterID = CounterDiameterResultCode
          /\ candidates[i].CauseCode # ""
    /\ \E i \in 1..Len(candidates) : candidates[i].CounterID = CounterTotalRequests
    /\ \A i \in 1..Len(records) :
          records[i].CounterID \notin {CounterDiameterResultCode, CounterTotalRequests}
    /\ Len(records) > 0

----------------------------------------------------------------------------
(* The properties of the scheduler's goroutines *)

\* the run goroutines that are in the fan-out of a cycle
InFanout == {l \in Loops : loops[l].pc = "fanout"}

\* C11: in a cycle with records, every Export call gets the full batch of
\* the cycle, the cycle ends only when Export was invoked on every sink of
\* its list and has returned, and the Export of the healthy sink returns
\* success whatever the failing sink did (failure, timeout, still running),
\* unless the context given to Start was cancelled.
C11_FanoutIsolation ==
    /\ [](\A l \in InFanout :
            /\ Len(loops[l].recs) > 0
            /\ \A k \in Sinks :
                  /\ loops[l].exp[k] # "idle" => loops[l].batch[k] = loops[l].recs
                  /\ (k = "good" /\ loops[l].exp[k] \in Returned /\ ~ctxDone)
                        => loops[l].exp[k] = "ok")
    /\ [][\A l \in InFanout :
            loops'[l].pc # "fanout" =>
               \A k \in SinksOf(loops[l].copy) :
                  loops[l].exp[k] \in Returned /\ loops[l].batch[k] = loops[l].recs]_vars

\* a fan-out over both sinks: the failing sink has failed, the healthy one
\* has succeeded with the full batch
C11_Witness ==
    \E l \in InFanout :
       /\ SinksOf(loops[l].copy) = {"good", "bad"}
       /\ loops[l].exp["bad"] = "failed"
       /\ loops[l].exp["good"] = "ok"
       /\ loops[l].batch["good"] = loops[l].recs
       /\ Len(loops[l].recs) > 0
       /\ ~ctxDone

\* C12: a cycle whose Transform returned no record invokes Export on no
\* sink: it is back at the select of the run loop, nothing has panicked, and
\* a cycle that is past Transform has records.
C12_EmptyCycleNoExport ==
    \A l \in Loops :
       /\ loops[l].pc \in {"update", "fanout"} => Len(loops[l].recs) > 0
       /\ (\E k \in Sinks : loops[l].exp[k] # "idle") => Len(loops[l].recs) > 0
       /\ loops[l].outcome = "empty" =>
             /\ loops[l].pc \in {"select", "exited"}
             /\ \A k \in Sinks : loops[l].exp[k] = "idle"
             /\ ~panicked

\* a cycle ended without a record while two sinks are registered; the loop
\* waits for its next tick
C12_Witness ==
    \E l \in Loops :
       /\ loops[l].outcome = "empty"
       /\ loops[l].pc = "select"
       /\ Len(exporters) = 2
       /\ stopChan = "open" /\ ~ctxDone

\* the run goroutines that Start has created
CreatedLoops == {l \in Loops : loops[l].pc # "none"}

\* C14: as long as Stop has not been called, the Start calls, sequential or
\* concurrent, create one run goroutine in all: the goroutines created and
\* those about to be created are at most one, exactly one when the running
\* flag is set, and none otherwise.
C14_OneRunLoop ==
    ~stopped =>
       /\ Cardinality(CreatedLoops) + Cardinality(PendingStarts) <= 1
       /\ running <=> (Cardinality(CreatedLoops) + Cardinality(PendingStarts) = 1)

\* a Start call returned as a no-op while the goroutine of the first Start
\* call runs, and no second goroutine exists
C14_Witness ==
    /\ ~stopped /\ running /\ noopStart
    /\ Cardinality(CreatedLoops) = 1
    /\ PendingStarts = {}

\* C15: no sink is closed twice; a Stop call that is past wg.Wait, and any
\* state in which a sink has been closed, has no export cycle in progress
\* (so no Export in flight) and no run goroutine left that has not exited.
C15_StopWaitsThenCloses ==
    /\ \A k \in Sinks : closeCount[k] <= 1
    /\ ((\E c \in Callers : callers[c].pc = "stop_closing")
           \/ (\E k \in Sinks : closeCount[k] > 0)) =>
          \A l \in Loops : ~InCycle(loops[l])

\* C16: a cycle whose collector result is not a *ServiceStats ends at once:
\* the step leaves the previous-snapshot slot as it was, calls no Export,
\* and the loop is back at its select, where the next tick starts a cycle.
C16_InvalidSnapshotAborts ==
    /\ [][\A l \in Loops :
            (loops[l].pc = "cycle" /\ loops'[l].pc # "cycle"
                /\ loops'[l].gotType # "*ServiceStats") =>
               /\ prevSnapshot' = prevSnapshot
               /\ loops'[l].pc = "select"
               /\ loops'[l].outcome = "aborted"
               /\ \A k \in Sinks : loops'[l].exp[k] = "idle"]_vars
    /\ [](\A l \in Loops :
            loops[l].gotType \notin {"", "*ServiceStats"} =>
               loops[l].pc \in {"select", "exited"})

\* a cycle was aborted while the slot holds the snapshot of an earlier cycle
C16_Witness ==
    \E l \in Loops :
       /\ loops[l].outcome = "aborted"
       /\ loops[l].gotType = "string"
       /\ loops[l].pc = "select"
       /\ prevSnapshot = <<FullStats(1)>>

\* C17: during the whole fan-out of a cycle, whatever the sinks have
\* returned, the previous-snapshot slot holds the snapshot the collector
\* returned in that cycle (not the delta); no Export is invoked earlier.
C17_SlotUpdatedBeforeFanout ==
    \A l \in Loops :
       /\ loops[l].pc = "fanout" => prevSnapshot = loops[l].cur
       /\ (\E k \in Sinks : loops[l].exp[k] # "idle") =>
             (loops[l].pc = "fanout" /\ prevSnapshot = loops[l].cur)

\* the second cycle on the same snapshot: the delta differs from the
\* snapshot, the slot holds the snapshot, one sink has failed and the other
\* has not been called yet
C17_Witness ==
    \E l \in InFanout :
       /\ loops[l].cur # loops[l].delta
       /\ prevSnapshot = loops[l].cur
       /\ loops[l].exp["bad"] \in {"failed", "timeout"}
       /\ loops[l].exp["good"] = "idle"
       /\ SinksOf(loops[l].copy) = {"good", "bad"}

\* C19: a sink that is not in the copy of the list that the cycle took (one
\* added later) gets no Export call in that cycle; the copy a cycle takes is
\* the whole list of that moment; and AddExporter can run in every state,
\* whatever the cycles and the Start and Stop calls are doing.
C19_AddExporterDuringFanout ==
    /\ [](\A l \in Loops : \A k \in Sinks \ SinksOf(loops[l].copy) :
            loops[l].exp[k] = "idle")
    /\ []((~panicked /\ Len(exporters) < Len(RegistrationOrder)) =>
            ENABLED AddExporter(RegistrationOrder[Len(exporters) + 1]))
    /\ [][\A l \in Loops :
            (loops[l].pc = "update" /\ loops'[l].pc = "fanout") =>
               loops'[l].copy = exporters]_vars

\* the second sink was added during a fan-out over the first: it has no
\* Export call in this cycle
C19_Witness ==
    \E l \in InFanout :
       /\ loops[l].copy = <<"good">>
       /\ exporters = <<"good", "bad">>
       /\ loops[l].exp["good"] = "inflight"
       /\ loops[l].exp["bad"] = "idle"

\* C20: no export cycle is started once the stop channel is closed or the
\* context is cancelled.
C20_NoCycleAfterShutdown ==
    \A l \in Loops : InCycle(loops[l]) => ~loops[l].late

\* C18: after every cycle in which the collector returned a snapshot, the
\* previous-snapshot slot holds that snapshot, also when Transform returned
\* no record.
C18_SlotReplacedEveryCycle ==
    ran => prevSnapshot = <<lastCurrent>>

\* after a cycle that returned records the slot holds the cycle's snapshot
SlotReplacedWhenRecords ==
    (ran /\ Len(records) > 0) => prevSnapshot = <<lastCurrent>>

\* C13: at most one run goroutine is inside exportCycle at any time.
C13_AtMostOneCycle ==
    Cardinality({l \in Loops : InCycle(loops[l])}) <= 1

----------------------------------------------------------------------------
(* The run loop under the scheduling of the Go runtime: a goroutine that    *)
(* can take a step takes one.  A select with a ready case proceeds, each    *)
(* sink goroutine of a fan-out is started, and the ticker keeps sending.    *)

FairSched ==
    /\ \A l \in Loops : WF_vars(Tick(l))
    /\ \A l \in Loops : WF_vars(RunTick(l))
    /\ \A l \in Loops : \A k \in Sinks : WF_vars(ExportInvoke(l, k))

SpecSchedFair == InitSched /\ [][NextSched]_vars /\ FairSched

\* the shutdown of the scheduler was requested
Shutdown == ctxDone \/ stopChan = "closed"

\* a cycle of run goroutine l ended on a collector failure, or on a fan-out
\* (where the sink "bad" always fails or times out), and the loop is back at
\* its select
BackAfterFailure(l) ==
    /\ loops[l].pc = "select"
    /\ \/ loops[l].outcome = "aborted"
       \/ loops[l].outcome = "exported" /\ "bad" \in SinksOf(exporters)

\* C21: the run loop exits only on shutdown (closed stop channel or cancelled
\* context); a loop that is back from a cycle with a collector failure or a
\* failing sink is still at its select, its ticker still ticks, a pending
\* tick leads to a new cycle unless shutdown is requested, and in a fan-out
\* every sink of the cycle's list has its Export called
C21_LoopExitsOnlyOnShutdown ==
    /\ [][\A l \in Loops :
            (loops[l].pc # "exited" /\ loops'[l].pc = "exited") => Shutdown]_vars
    /\ [](\A l \in Loops :
            BackAfterFailure(l) => (loops[l].tick \/ ENABLED Tick(l)))
    /\ \A l \in Loops :
            (BackAfterFailure(l) /\ loops[l].tick) ~> (loops[l].pc = "cycle" \/ Shutdown)
    /\ \A l \in Loops : \A k \in Sinks :
            (loops[l].pc = "fanout" /\ k \in SinksOf(loops[l].copy) /\ ~Shutdown)
                ~> (loops[l].exp[k] # "idle" \/ Shutdown)

\* a second cycle fans out to both sinks after a cycle that was aborted or
\* that had a failing sink, with no shutdown requested
C21_Witness ==
    \E l \in Loops :
        /\ loops[l].pc = "fanout"
        /\ ~Shutdown
        /\ prevSnapshot # <<>>
        /\ \A k \in Sinks : loops[l].exp[k] \in Returned
        /\ loops[l].exp["bad"] \in {"failed", "timeout"}

----------------------------------------------------------------------------
(* The sinks: one Export call on an HTTPExporter, a PostgresExporter or a   *)
(* FileExporter.  The records of the batch are named by their position.     *)
(* A transport action is an HTTP request, a database statement or a file    *)
(* write; its outcome is the environment's choice.  json.Marshal succeeds   *)
(* on the finite values the model uses.  The context of the call may        *)
(* become done at any moment.                                               *)

MaxBatch == 2

DefaultRetryAttempts == 3

DefaultBatchSize == 1000

DefaultMaxRetry == 3

\* the retry counts and batch sizes a configuration may hold
RetryInputs == {-1, 0, 1, 2}

BatchSizeInputs == {-1, 0, 1, 2}

\* NewHTTPExporter: a RetryAttempts of 0 becomes the default, any other
\* value is kept
NewHTTPExporter(retryAttempts) ==
    [kind |-> "http",
     RetryAttempts |-> IF retryAttempts = 0 THEN DefaultRetryAttempts ELSE retryAttempts,
     BatchSize |-> 0]

\* NewPostgresExporter: a BatchSize or a MaxRetry of 0 becomes the default
NewPostgresExporter(batchSize, maxRetry) ==
    [kind |-> "postgres",
     RetryAttempts |-> IF maxRetry = 0 THEN DefaultMaxRetry ELSE maxRetry,
     BatchSize |-> IF batchSize = 0 THEN DefaultBatchSize ELSE batchSize]

\* NewFileExporter: no retry, no batching
NewFileExporter == [kind |-> "file", RetryAttempts |-> 0, BatchSize |-> 0]

ExporterInstances ==
    {NewHTTPExporter(r) : r \in RetryInputs}
    \cup {NewPostgresExporter(b, r) : b \in BatchSizeInputs, r \in RetryInputs}
    \cup {NewFileExporter}

\* the record batches: [1], [1, 2], ...
Batches == {[i \in 1..n |-> i] : n \in 0..MaxBatch}

\* a transport action: late is TRUE when it started with the context done
SendEvent(ok, recs) == [op |-> "send", ok |-> ok, late |-> exportCtx, recs |-> recs]

WaitEvent == [op |-> "wait", ok |-> TRUE, late |-> exportCtx, recs |-> {}]

\* if len(records) == 0 { return nil }
EmptyBatch_never(recs) == FALSE

EmptyBatch(recs) == Len(recs) = 0

\* the condition of the retry loops: attempt <= RetryAttempts (MaxRetry)
RetryLoopRuns(n, max) == n <= max

\* the test before the retry wait: attempt < RetryAttempts (MaxRetry)
WaitsBeforeNext(n, max) == n < max

AllRecords == 1..Len(exportArg)

InitExport ==
    /\ config = NoFilter
    /\ profile = "cache"
    /\ prevSnapshot = <<>>
    /\ ran = FALSE
    /\ lastPrev = <<>>
    /\ lastCurrent = ZeroStats
    /\ deltaStats = ZeroStats
    /\ candidates = <<>>
    /\ records = <<>>
    /\ NewExportScheduler
    /\ NoManager
    /\ NoHeap
    /\ NoLedger
    /\ NoQueue
    /\ exportSink \in ExporterInstances
    /\ exportArg \in Batches
    /\ exportCtx = FALSE
    /\ exportPc = "idle"
    /\ attempt = 0
    /\ offset = 0
    /\ transport = <<>>
    /\ delivered = {}
    /\ exportRet = "none"

notExportVars == <<config, prevSnapshot, cycleVars, schedVars, managerVars, heapVars,
                   queueVars, ledger>>

\* Export returns r
ExportReturns(r) ==
    /\ exportPc' = "returned"
    /\ exportRet' = r

\* the caller's context is cancelled or its deadline passes
ExportCancel ==
    /\ exportPc # "returned"
    /\ ~exportCtx
    /\ exportCtx' = TRUE
    /\ UNCHANGED <<exportSink, exportArg, exportPc, attempt, offset, transport, delivered,
                   exportRet, notExportVars>>

\* HTTPExporter.Export up to the retry loop: the empty batch returns nil; a
\* loop whose condition fails at once leads to the return after the loop
HTTPExportEnter ==
    /\ exportSink.kind = "http"
    /\ exportPc = "idle"
    /\   IF EmptyBatch(exportArg)
         THEN ExportReturns("ok") /\ UNCHANGED attempt
         ELSE IF RetryLoopRuns(1, exportSink.RetryAttempts)
              THEN exportPc' = "attempt" /\ attempt' = 1 /\ UNCHANGED exportRet
              ELSE ExportReturns("err") /\ attempt' = 1
    /\ UNCHANGED <<exportSink, exportArg, exportCtx, offset, transport, delivered,
                   notExportVars>>

\* one round of the retry loop: the context check, sendRequest with the
\* whole batch, and what follows a failure
HTTPAttempt ==
    /\ exportSink.kind = "http"
    /\ exportPc = "attempt"
    /\   IF exportCtx
         THEN /\ ExportReturns("err")
              /\ UNCHANGED <<attempt, transport, delivered>>
         ELSE \E ok \in BOOLEAN :
                /\ transport' = Append(transport, SendEvent(ok, AllRecords))
                /\   IF ok
                     THEN /\ delivered' = AllRecords
                          /\ ExportReturns("ok")
                          /\ UNCHANGED attempt
                     ELSE /\ UNCHANGED delivered
                          /\   IF WaitsBeforeNext(attempt, exportSink.RetryAttempts)
                               THEN exportPc' = "wait" /\ UNCHANGED <<attempt, exportRet>>
                               ELSE IF RetryLoopRuns(attempt + 1, exportSink.RetryAttempts)
                                    THEN /\ attempt' = attempt + 1
                                         /\ UNCHANGED <<exportPc, exportRet>>
                                    ELSE ExportReturns("err") /\ attempt' = attempt + 1
    /\ UNCHANGED <<exportSink, exportArg, exportCtx, offset, notExportVars>>

\* the select of a retry wait: <-ctx.Done() returns ctx.Err(), the timer
\* leads to the next round at position back
RetryWait(back) ==
    /\ exportPc = "wait"
    /\ \/ /\ exportCtx
          /\ ExportReturns("err")
          /\ UNCHANGED <<attempt, transport>>
       \/ /\ transport' = Append(transport, WaitEvent)
          /\ attempt' = attempt + 1
          /\ exportPc' = back
          /\ UNCHANGED exportRet
    /\ UNCHANGED <<exportSink, exportArg, exportCtx, offset, delivered, notExportVars>>

\* the wait of e.config.RetryDelay between two attempts
HTTPWait == exportSink.kind = "http" /\ RetryWait("attempt")

\* PostgresExporter.Export up to its loop over the batches
PostgresExportEnter ==
    /\ exportSink.kind = "postgres"
    /\ exportPc = "idle"
    /\   IF EmptyBatch(exportArg)
         THEN ExportReturns("ok")
         ELSE exportPc' = "batch" /\ UNCHANGED exportRet
    /\ UNCHANGED <<exportSink, exportArg, exportCtx, attempt, offset, transport, delivered,
                   notExportVars>>

\* end of the batch that starts at index i (0-based)
BatchEnd_unclamped(i) == i + exportSink.BatchSize

BatchEnd(i) ==
    IF i + exportSink.BatchSize > Len(exportArg) THEN Len(exportArg)
    ELSE i + exportSink.BatchSize

\* the records of the batch records[i:end], by position
BatchRecords(i) == (i + 1)..BatchEnd(i)

\* the head of the loop over the batches: the loop condition, the slice
\* records[i:end] (which panics when end < i) and the entry of insertBatch
PostgresBatch ==
    /\ exportSink.kind = "postgres"
    /\ exportPc = "batch"
    /\   IF offset >= Len(exportArg)
         THEN ExportReturns("ok") /\ UNCHANGED attempt
         ELSE IF BatchEnd(offset) < offset
              THEN ExportReturns("panic") /\ UNCHANGED attempt
              ELSE IF RetryLoopRuns(1, exportSink.RetryAttempts)
                   THEN exportPc' = "insert" /\ attempt' = 1 /\ UNCHANGED exportRet
                   ELSE ExportReturns("err") /\ attempt' = 1
    /\ UNCHANGED <<exportSink, exportArg, exportCtx, offset, transport, delivered,
                   notExportVars>>

\* insertBatch, one round of its retry loop: db.ExecContext returns the
\* context's error without sending when the context is done (database/sql),
\* else it sends one multi-row INSERT for the batch
PostgresInsert ==
    /\ exportSink.kind = "postgres"
    /\ exportPc = "insert"
    /\ \E ok \in (IF exportCtx THEN {FALSE} ELSE BOOLEAN) :
         /\ transport' = IF exportCtx THEN transport
                         ELSE Append(transport, SendEvent(ok, BatchRecords(offset)))
         /\   IF ok
              THEN /\ delivered' = delivered \cup BatchRecords(offset)
                   /\ offset' = offset + exportSink.BatchSize
                   /\ exportPc' = "batch"
                   /\ UNCHANGED <<attempt, exportRet>>
              ELSE /\ UNCHANGED <<delivered, offset>>
                   /\   IF WaitsBeforeNext(attempt, exportSink.RetryAttempts)
                        THEN exportPc' = "wait" /\ UNCHANGED <<attempt, exportRet>>
                        ELSE IF RetryLoopRuns(attempt + 1, exportSink.RetryAttempts)
                             THEN /\ attempt' = attempt + 1
                                  /\ UNCHANGED <<exportPc, exportRet>>
                             ELSE ExportReturns("err") /\ attempt' = attempt + 1
    /\ UNCHANGED <<exportSink, exportArg, exportCtx, notExportVars>>

\* the wait of one second between two insert attempts
PostgresWait == exportSink.kind = "postgres" /\ RetryWait("insert")

\* FileExporter.Export up to its loop: the empty batch, e.mu, and the one
\* check of the context
FileExportEnter ==
    /\ exportSink.kind = "file"
    /\ exportPc = "idle"
    /\   IF EmptyBatch(exportArg)
         THEN ExportReturns("ok") /\ UNCHANGED offset
         ELSE IF exportCtx
              THEN ExportReturns("err") /\ UNCHANGED offset
              ELSE exportPc' = "write" /\ offset' = 1 /\ UNCHANGED exportRet
    /\ UNCHANGED <<exportSink, exportArg, exportCtx, attempt, transport, delivered,
                   notExportVars>>

\* one round of the loop over the records: e.writer.Write of one line; a
\* failed write returns, the last successful one ends the loop
FileWrite ==
    /\ exportSink.kind = "file"
    /\ exportPc = "write"
    /\   IF offset > Len(exportArg)
         THEN ExportReturns("ok") /\ UNCHANGED <<offset, transport, delivered>>
         ELSE \E ok \in BOOLEAN :
                /\ transport' = Append(transport, SendEvent(ok, {offset}))
                /\   IF ok
                     THEN /\ delivered' = delivered \cup {offset}
                          /\ offset' = offset + 1
                          /\   IF offset = Len(exportArg)
                               THEN ExportReturns("ok")
                               ELSE UNCHANGED <<exportPc, exportRet>>
                     ELSE /\ ExportReturns("err")
                          /\ UNCHANGED <<delivered, offset>>
    /\ UNCHANGED <<exportSink, exportArg, exportCtx, attempt, notExportVars>>

NextExport ==
    \/ ExportCancel
    \/ HTTPExportEnter
    \/ HTTPAttempt
    \/ HTTPWait
    \/ PostgresExportEnter
    \/ PostgresBatch
    \/ PostgresInsert
    \/ PostgresWait
    \/ FileExportEnter
    \/ FileWrite

SpecExport == InitExport /\ [][NextExport]_vars

\* the send events of the call
Sends == {i \in 1..Len(transport) : transport[i].op = "send"}

\* C22: Export with an empty batch returns success and performs no transport
\* action, on each of the three sinks and whatever the state of the context
C22_EmptyBatchNoOp ==
    Len(exportArg) = 0 =>
        /\ transport = <<>>
        /\ delivered = {}
        /\ exportPc \in {"idle", "returned"}
        /\ exportPc = "returned" => exportRet = "ok"

\* Export of the file sink returned for an empty batch with the context done
C22_Witness ==
    /\ exportSink.kind = "file"
    /\ Len(exportArg) = 0
    /\ exportCtx
    /\ exportPc = "returned"
    /\ exportRet = "ok"

\* C23: the outcome of one Export call is atomic for the batch: success only
\* with every record delivered, failure only with no record delivered
C23_AtomicOutcome ==
    exportPc = "returned" =>
        /\ exportRet = "ok" => delivered = AllRecords
        /\ exportRet = "err" => delivered = {}

\* the outcome of the HTTP sink is atomic: its one request carries the whole
\* batch
HTTPOutcomeAtomic ==
    (exportSink.kind = "http" /\ exportPc = "returned") =>
        /\ exportRet = "ok" => delivered = AllRecords
        /\ exportRet = "err" => delivered = {}

\* C24: once the context is done Export starts no transport action, a call
\* with a non-empty batch that returns success had its last action started
\* before the context was done, a call entered with the context done fails,
\* and a retry wait can end at once when the context is done
C24_CancellationRespected ==
    /\ \A i \in Sends : ~transport[i].late
    /\ (exportPc = "returned" /\ exportRet = "ok" /\ Len(exportArg) > 0) =>
           /\ transport # <<>>
           /\ transport[Len(transport)].op = "send"
           /\ transport[Len(transport)].ok
    /\ (exportPc = "wait" /\ exportCtx) =>
           ENABLED (RetryWait("attempt") /\ exportRet' = "err")
              \/ ENABLED (RetryWait("insert") /\ exportRet' = "err")

\* the HTTP and the PostgreSQL sink start no transport action once the
\* context is done
RetryingSinksRespectCancellation ==
    exportSink.kind \in {"http", "postgres"} => \A i \in Sends : ~transport[i].late

\* the transport actions of a call that ran to its end without cancellation:
\* sends and waits alternate, a wait follows each failed send but the last
Alternates ==
    /\ Len(transport) = 2 * Cardinality(Sends) - 1
    /\ \A i \in 1..Len(transport) :
          transport[i].op = (IF i % 2 = 1 THEN "send" ELSE "wait")
    /\ \A i \in Sends : transport[i].ok => i = Len(transport)

\* C27: HTTPExporter.Export with a non-empty batch and a context that is not
\* done makes between one and RetryAttempts send attempts, stops at the
\* first success, waits between attempts and not after the last, and fails
\* exactly when RetryAttempts attempts failed, whatever RetryAttempts is
C27_BoundedRetry ==
    (exportSink.kind = "http" /\ exportPc = "returned" /\ ~exportCtx
        /\ Len(exportArg) > 0) =>
        /\ Cardinality(Sends) >= 1
        /\ Cardinality(Sends) <= exportSink.RetryAttempts
        /\ Alternates
        /\ exportRet = "ok" <=> transport[Len(transport)].ok
        /\ exportRet = "err" <=>
              /\ Cardinality(Sends) = exportSink.RetryAttempts
              /\ \A i \in Sends : ~transport[i].ok

\* the retry policy holds for every positive RetryAttempts
BoundedRetryWhenPositive ==
    exportSink.RetryAttempts >= 1 => C27_BoundedRetry

----------------------------------------------------------------------------
(* The snapshots in memory.  A snapshot is a *ServiceStats that points to   *)
(* its maps and, through CustomMetrics["eir"], to an *EIRStats with its     *)
(* maps.  An address is <<allocation, object>>; calculateDeltaStats and     *)
(* calculateEIRDelta write to the objects they allocate, and return the     *)
(* current object itself where they return current.  A ByResultCode map is  *)
(* part of the content of its interface entry.                              *)

MaxCycles == 3

\* the objects of a ServiceStats and of an EIRStats
StatsObjects == {"stats", "BySource", "ByOperation", "ByType", "ByInterface", "CustomMetrics"}

EIRObjects == {"eir", "eir.ByInterface", "eir.ByEquipmentStatus"}

SnapshotObjects(s) ==
    StatsObjects \cup (IF HasEIR(s.CustomMetrics) THEN EIRObjects ELSE {})

\* what the object obj of snapshot s holds
ContentOf(s, obj) ==
    CASE obj = "stats" ->
           [Connections |-> s.Connections,
            Requests |-> [f \in RequestScalarFields |-> s.Requests[f]],
            Performance |-> s.Performance,
            ErrorsTotal |-> s.Errors.Total]
      [] obj = "BySource" -> s.Requests.BySource
      [] obj = "ByOperation" -> s.Requests.ByOperation
      [] obj = "ByType" -> s.Errors.ByType
      [] obj = "ByInterface" -> s.Errors.ByInterface
      [] obj = "CustomMetrics" -> [k \in DOMAIN s.CustomMetrics |-> s.CustomMetrics[k].type]
      [] obj = "eir" ->
           LET eir == GetEIR(s.CustomMetrics)
           IN  [EquipmentChecks |->
                    [f \in EquipmentCheckScalarFields |-> eir.EquipmentChecks[f]],
                DatabaseOps |-> eir.DatabaseOps,
                CacheStats |-> eir.CacheStats]
      [] obj = "eir.ByInterface" -> GetEIR(s.CustomMetrics).EquipmentChecks.ByInterface
      [] obj = "eir.ByEquipmentStatus" -> GetEIR(s.CustomMetrics).ByEquipmentStatus

\* the addresses of a snapshot allocated as number n
Allocate(n, s) == [obj \in SnapshotObjects(s) |-> <<n, obj>>]

\* where the delta's object obj is written: a new object, never the one of
\* the current snapshot at cur
WriteTarget_inPlace(obj, new, cur) == IF obj = "BySource" THEN cur ELSE new

WriteTarget(obj, new, cur) == new

\* the objects of the delta that are the current snapshot's own: all of them
\* when there is no previous snapshot (return current), the EIR block when
\* the previous snapshot has none (calculateEIRDelta returns current)
SharedObjects(prev, current) ==
    IF prev = <<>> THEN SnapshotObjects(current)
    ELSE IF HasEIR(current.CustomMetrics) /\ ~HasEIR(prev[1].CustomMetrics)
         THEN EIRObjects ELSE {}

\* the addresses of the delta of cycle n
DeltaRefs(n, prev, current, delta, curRefs) ==
    [obj \in SnapshotObjects(delta) |->
        IF obj \in SharedObjects(prev, current) THEN curRefs[obj]
        ELSE WriteTarget(obj, <<n, obj>>, curRefs[obj])]

\* the heap after the collector built current at curRefs and
\* calculateDeltaStats wrote the delta's objects; objects no snapshot
\* refers to are gone
HeapAfter(old, prevRefs, prev, current, curRefs, delta, deltaRefs) ==
    LET written == SnapshotObjects(delta) \ SharedObjects(prev, current)
        live == {prevRefs[o] : o \in DOMAIN prevRefs}
                \cup {curRefs[o] : o \in DOMAIN curRefs}
                \cup {deltaRefs[o] : o \in DOMAIN deltaRefs}
    IN  [a \in live |->
            IF \E o \in written : deltaRefs[o] = a
            THEN ContentOf(delta, a[2])
            ELSE IF \E o \in DOMAIN curRefs : curRefs[o] = a
                 THEN ContentOf(current, a[2])
                 ELSE old[a]]

\* the services observed on the heap: those that vary a map of the snapshot
\* or of its extension block, and one that varies scalars
FrameProfiles == {"requests", "bySource", "byOperation", "errors", "byInterface",
                  "byEquipmentStatus"}

InitFrame ==
    /\ Init
    /\ profile \in FrameProfiles

\* exportCycle on the heap: the collector allocates current,
\* calculateDeltaStats allocates and fills the delta, Transform reads it and
\* updatePreviousSnapshot stores the pointer to current
CycleOnHeap ==
    /\ cycles < MaxCycles
    /\ \E current \in SnapshotsOf(profile) :
         LET delta == calculateDeltaStats(prevSnapshot, current)
             curRefs == Allocate(2 * cycles + 1, current)
             deltaRefs == DeltaRefs(2 * cycles + 2, prevSnapshot, current, delta, curRefs)
         IN  \E order \in IterationOrders(delta) :
               /\ lastPrev' = prevSnapshot
               /\ lastCurrent' = current
               /\ deltaStats' = delta
               /\ candidates' = TransformCandidates(delta, order)
               /\ records' = Transform(config, delta, order)
               /\ prevSnapshot' = SlotAfterCycle(prevSnapshot, current, records')
               /\ ran' = TRUE
               /\ cycles' = cycles + 1
               /\ refs' = [cur |-> curRefs,
                           prev |-> IF Len(records') = 0 THEN refs.prev ELSE curRefs,
                           delta |-> deltaRefs]
               /\ heap' = HeapAfter(heap, refs.prev, prevSnapshot, current, curRefs,
                                    delta, deltaRefs)
    /\ UNCHANGED <<config, profile, schedVars, exportVars, managerVars, queueVars, ledger>>

NextFrame == CycleOnHeap

SpecFrame == InitFrame /\ [][NextFrame]_vars

\* the snapshot s whose objects are at the addresses r has the content the
\* collector gave it
Intact(s, r) == \A obj \in DOMAIN r : heap[r[obj]] = ContentOf(s, obj)

\* C25: the delta computation writes to no object of the current or of the
\* previous snapshot: after every cycle the snapshot the collector returned
\* and the snapshot in the slot hold what the collector put into them, maps
\* and extension block included
C25_InputsNotModified ==
    ran =>
        /\ Intact(lastCurrent, refs.cur)
        /\ prevSnapshot # <<>> => Intact(prevSnapshot[1], refs.prev)
        /\ DOMAIN refs.cur = SnapshotObjects(lastCurrent)

\* a cycle computed a delta against a previous snapshot with source entries
\* that differs from the current one, and the slot was replaced
C25_Witness ==
    /\ ran
    /\ lastPrev # <<>>
    /\ lastPrev[1].Requests.BySource # EmptyMap
    /\ deltaStats.Requests.BySource # lastCurrent.Requests.BySource
    /\ deltaStats # lastCurrent
    /\ refs.prev = refs.cur
    /\ cycles >= 2

----------------------------------------------------------------------------
(* The configuration manager (config/provider.go).  A configuration is a    *)
(* map[string]interface{}: a value is a scalar or a nested map.  merge      *)
(* looks at no scalar, so the scalars of a provider all carry the           *)
(* provider's position in Manager.providers, which shows where a value of   *)
(* the result comes from.                                                   *)

MaxProviders == 3

Scalar(n) == [kind |-> "scalar", v |-> n, m |-> EmptyMap]

MapValue(f) == [kind |-> "map", v |-> 0, m |-> f]

\* the maps with keys among keys and values among vals
MapsOver(keys, vals) == UNION {[ks -> vals] : ks \in SUBSET keys}

\* the data of the provider at position i: a and a.x may be scalars or maps,
\* b, a.y and a.x.z scalars; every key may be missing
ProviderData(i) ==
    LET inner == {MapValue(f) : f \in MapsOver({"z"}, {Scalar(i)})}
        middle == {f \in MapsOver({"x", "y"}, {Scalar(i)} \cup inner) :
                      "y" \in DOMAIN f => f["y"].kind = "scalar"}
    IN  {f \in MapsOver({"a", "b"}, {Scalar(i)} \cup {MapValue(g) : g \in middle}) :
            "b" \in DOMAIN f => f["b"].kind = "scalar"}

\* the lists of n providers, in priority order
RECURSIVE ProviderLists(_)
ProviderLists(n) ==
    IF n = 0 THEN {<<>>}
    ELSE {Append(ps, d) : ps \in ProviderLists(n - 1), d \in ProviderData(n)}

\* every dst[k] = v, no descent into nested maps
merge_shallow(dst, src) ==
    [k \in DOMAIN dst \cup DOMAIN src |-> IF k \in DOMAIN src THEN src[k] ELSE dst[k]]

\* merge(dst, src): dst after the call.  The keys of src are independent of
\* each other, so the order of the range loop plays no part
RECURSIVE merge(_, _)
merge(dst, src) ==
    [k \in DOMAIN dst \cup DOMAIN src |->
        IF k \notin DOMAIN src THEN dst[k]
        ELSE IF src[k].kind = "map" /\ k \in DOMAIN dst /\ dst[k].kind = "map"
             THEN MapValue(merge(dst[k].m, src[k].m))
             ELSE src[k]]

\* the loop of Load over providers[i], i from len-1 down to 0 (here from
\* Len down to 1), starting from result
RECURSIVE MergeFrom(_, _, _)
MergeFrom(ps, i, result) ==
    IF i = 0 THEN result ELSE MergeFrom(ps, i - 1, merge(result, ps[i]))

\* what the validator of the manager says: there is none, or it accepts, or
\* it rejects
Verdicts == {"none", "pass", "fail"}

InitManager ==
    /\ config = NoFilter
    /\ profile = "cache"
    /\ prevSnapshot = <<>>
    /\ ran = FALSE
    /\ lastPrev = <<>>
    /\ lastCurrent = ZeroStats
    /\ deltaStats = ZeroStats
    /\ candidates = <<>>
    /\ records = <<>>
    /\ NewExportScheduler
    /\ NoExportCall
    /\ NoHeap
    /\ NoLedger
    /\ NoQueue
    /\ \E n \in 1..MaxProviders : providers \in ProviderLists(n)
    /\ managerCurrent = <<>>
    /\ loadRet = NoReturn

\* Manager.Load: failing is the position of the provider whose Load fails
\* (0: none does)
Load(failing, verdict) ==
    /\ ~loadRet.done
    /\ failing \in 0..Len(providers)
    /\ LET result == MergeFrom(providers, Len(providers), EmptyMap)
       IN  IF failing # 0 \/ verdict = "fail"
           THEN /\ loadRet' = [done |-> TRUE, err |-> TRUE, val |-> <<>>]
                /\ UNCHANGED managerCurrent
           ELSE /\ loadRet' = [done |-> TRUE, err |-> FALSE, val |-> <<result>>]
                /\ managerCurrent' = <<result>>
    /\ UNCHANGED <<providers, config, prevSnapshot, cycleVars, schedVars, exportVars,
                   heapVars, queueVars, ledger>>

NextManager == \E failing \in 0..MaxProviders, verdict \in Verdicts : Load(failing, verdict)

SpecManager == InitManager /\ [][NextManager]_vars

\* the key paths of up to three keys, with the keys each level may hold
KeyPaths ==
    {<<k>> : k \in {"a", "b"}}
    \cup {<<k, l>> : k \in {"a", "b"}, l \in {"x", "y"}}
    \cup {<<k, l, j>> : k \in {"a", "b"}, l \in {"x", "y"}, j \in {"z"}}

\* the map f has a value at the key path p
RECURSIVE Defines(_, _)
Defines(f, p) ==
    /\ Head(p) \in DOMAIN f
    /\ \/ Len(p) = 1
       \/ f[Head(p)].kind = "map" /\ Defines(f[Head(p)].m, Tail(p))

RECURSIVE ValueAt(_, _)
ValueAt(f, p) == IF Len(p) = 1 THEN f[Head(p)] ELSE ValueAt(f[Head(p)].m, Tail(p))

\* the providers that define p; the smallest position is the highest priority
Definers(p) == {i \in 1..Len(providers) : Defines(providers[i], p)}

Highest(p) == CHOOSE i \in Definers(p) : \A j \in Definers(p) : i <= j

\* the result holds at p what the highest-priority definer of p holds: the
\* same scalar, or a map where that provider has a map
FromHighest(result, p) ==
    /\ Defines(result, p)
    /\ LET want == ValueAt(providers[Highest(p)], p)
           got == ValueAt(result, p)
       IN  /\ got.kind = want.kind
           /\ want.kind = "scalar" => got = want

\* a provider of higher priority than every definer of p holds a scalar at
\* a proper prefix of p
Shadowed(p) ==
    \E n \in 1..(Len(p) - 1) : \E j \in 1..Len(providers) :
        /\ j < Highest(p)
        /\ Defines(providers[j], SubSeq(p, 1, n))
        /\ ValueAt(providers[j], SubSeq(p, 1, n)).kind = "scalar"

Loaded == loadRet.done /\ ~loadRet.err

\* C26 as stated: every key path some provider defines is in the result
\* with the value of the highest-priority provider that defines it, and the
\* result has no other key path
C26_HighestPriorityWins ==
    Loaded =>
        \A p \in KeyPaths :
            IF Definers(p) = {} THEN ~Defines(loadRet.val[1], p)
            ELSE FromHighest(loadRet.val[1], p)

\* C26 (amended): the same for every key path that is not below a scalar of
\* a provider of higher priority; a key path below such a scalar is not in
\* the result; Manager.current is the result
C26_HighestPriorityWinsUnlessShadowed ==
    Loaded =>
        /\ managerCurrent = loadRet.val
        /\ \A p \in KeyPaths :
              IF Definers(p) = {} THEN ~Defines(loadRet.val[1], p)
              ELSE IF Shadowed(p) THEN ~Defines(loadRet.val[1], p)
              ELSE FromHighest(loadRet.val[1], p)

\* Load returned the merge of three providers: a.x from the first, a.y from
\* the third only, b from the second
C26_Witness ==
    /\ Loaded
    /\ Len(providers) = 3
    /\ Defines(loadRet.val[1], <<"a", "x">>) /\ ValueAt(loadRet.val[1], <<"a", "x">>) = Scalar(1)
    /\ Defines(providers[3], <<"a", "x">>)
    /\ Defines(loadRet.val[1], <<"a", "y">>) /\ ValueAt(loadRet.val[1], <<"a", "y">>) = Scalar(3)
    /\ Defines(loadRet.val[1], <<"b">>) /\ ValueAt(loadRet.val[1], <<"b">>) = Scalar(2)

----------------------------------------------------------------------------
(* The result-code records of the extension block *)

\* the interface keys transformEIRStats has a case for
RecognizedInterfaces == {"diameter", "http"}

\* the identifier of the result-code records of an interface
ResultCodeCounter(ifName) ==
    IF ifName = "diameter" THEN CounterDiameterResultCode ELSE CounterHTTPStatusCode

\* the identifiers of the records transformEIRStats builds
ExtensionCounters ==
    {CounterDiameterTotal, CounterDiameterSuccess, CounterDiameterFailed,
     CounterDiameterResultCode, CounterHTTPTotal, CounterHTTPSuccess, CounterHTTPFailed,
     CounterHTTPStatusCode, CounterCacheHits, CounterCacheMisses, CounterCacheHitRate,
     CounterCacheSize, CounterDBQueries, CounterDBInserts, CounterDBUpdates,
     CounterDBDeletes, CounterWhitelisted, CounterBlacklisted, CounterGreylisted}

\* the records of recs for the result code of the interface
ResultCodeRecords(recs, ifName, code) ==
    {i \in 1..Len(recs) :
        /\ recs[i].CounterID = ResultCodeCounter(ifName)
        /\ recs[i].CauseCode = ifName \o ":" \o ToString(code)}

\* the records of recs that belong to the interface: their tag is the
\* interface key or starts with it
InterfaceTagged(recs, ifName, ifStats) ==
    {i \in 1..Len(recs) :
        \/ recs[i].CauseCode = ifName
        \/ \E code \in DOMAIN ifStats.ByResultCode :
              recs[i].CauseCode = ifName \o ":" \o ToString(code)}

\* the filter of the configuration lets records with this identifier pass
PassesFilter(cfg, counterID) ==
    /\ ~OnList(cfg.ExcludeCounters, counterID)
    /\ Len(cfg.IncludeCounters) > 0 => OnList(cfg.IncludeCounters, counterID)

\* the result-code records in recs are those of the block: one per code with
\* a non-zero count of a recognized interface when expected(counter) holds,
\* none otherwise
ResultCodeRecordsAre(recs, stats, expected(_)) ==
    IF HasEIR(stats.CustomMetrics)
    THEN LET byIf == GetEIR(stats.CustomMetrics).EquipmentChecks.ByInterface
         IN  \A ifName \in DOMAIN byIf :
               IF ifName \in RecognizedInterfaces
               THEN \A code \in DOMAIN byIf[ifName].ByResultCode :
                      LET count == byIf[ifName].ByResultCode[code]
                          found == ResultCodeRecords(recs, ifName, code)
                      IN  IF count > 0 /\ expected(ResultCodeCounter(ifName))
                          THEN /\ Cardinality(found) = 1
                               /\ \A i \in found : recs[i].Value = count
                          ELSE found = {}
               ELSE InterfaceTagged(recs, ifName, byIf[ifName]) = {}
    ELSE \A i \in 1..Len(recs) : recs[i].CounterID \notin ExtensionCounters

UnrecognizedInterfaceSeen ==
    /\ ran
    /\ HasEIR(deltaStats.CustomMetrics)
    /\ DOMAIN GetEIR(deltaStats.CustomMetrics).EquipmentChecks.ByInterface = {"sctp"}

----------------------------------------------------------------------------
(* The scalar counters of ConnectionStats and RequestStats *)

\* current - previous, floored at zero
SaturatingDifference(a, b) == IF a >= b THEN a - b ELSE 0

\* C29: when a previous snapshot exists, every counter field of Connections
\* and Requests in the delta, BytesSent, BytesRecv and Closed among them, is
\* the saturating difference current - previous
C29_EveryCounterDifferenced ==
    (ran /\ lastPrev # <<>>) =>
        /\ \A f \in ConnectionCounters :
              deltaStats.Connections[f] =
                  SaturatingDifference(lastCurrent.Connections[f], Prev.Connections[f])
        /\ \A f \in RequestCounters :
              deltaStats.Requests[f] =
                  SaturatingDifference(lastCurrent.Requests[f], Prev.Requests[f])

\* the counters the literals of calculateDeltaStats name are differenced
NamedCountersDifferenced ==
    (ran /\ lastPrev # <<>>) =>
        /\ \A f \in ConnectionCounters \ {"Closed"} :
              deltaStats.Connections[f] =
                  SaturatingDifference(lastCurrent.Connections[f], Prev.Connections[f])
        /\ \A f \in RequestCounters \ {"BytesSent", "BytesRecv"} :
              deltaStats.Requests[f] =
                  SaturatingDifference(lastCurrent.Requests[f], Prev.Requests[f])
        /\ deltaStats.Connections.Closed = 0
        /\ deltaStats.Requests.BytesSent = 0
        /\ deltaStats.Requests.BytesRecv = 0

----------------------------------------------------------------------------
(* The extension block of the delta *)

\* C30: when the current snapshot carries the EIR block and the previous one
\* does not (no entry, or an entry of another type), the delta's block is the
\* current block in full; when the current snapshot carries no EIR block the
\* delta carries none, and against a previous snapshot its extension map
\* has no "eir" entry at all
C30_ExtensionMismatchTolerated ==
    ran =>
        /\ (lastPrev # <<>> /\ HasEIR(lastCurrent.CustomMetrics)
              /\ ~HasEIR(Prev.CustomMetrics)) =>
              /\ HasEIR(deltaStats.CustomMetrics)
              /\ GetEIR(deltaStats.CustomMetrics) = GetEIR(lastCurrent.CustomMetrics)
        /\ ~HasEIR(lastCurrent.CustomMetrics) =>
              /\ ~HasEIR(deltaStats.CustomMetrics)
              /\ lastPrev # <<>> => "eir" \notin DOMAIN deltaStats.CustomMetrics

\* a cycle differenced a snapshot with a non-zero EIR block against a stored
\* snapshot whose "eir" entry is of another type
C30_Witness ==
    /\ ran
    /\ lastPrev # <<>>
    /\ "eir" \in DOMAIN Prev.CustomMetrics
    /\ ~HasEIR(Prev.CustomMetrics)
    /\ HasEIR(lastCurrent.CustomMetrics)
    /\ GetEIR(lastCurrent.CustomMetrics) # ZeroEIRStats
    /\ GetEIR(deltaStats.CustomMetrics) = GetEIR(lastCurrent.CustomMetrics)

\* a cycle differenced a snapshot with an EIR block against a stored snapshot
\* without extension map entries
PreviousWithoutEntrySeen ==
    /\ ran
    /\ lastPrev # <<>>
    /\ Prev.CustomMetrics = EmptyMap
    /\ HasEIR(lastCurrent.CustomMetrics)

\* a cycle differenced a snapshot without EIR block against a stored snapshot
\* that has one
CurrentWithoutBlockSeen ==
    /\ ran
    /\ lastPrev # <<>>
    /\ HasEIR(Prev.CustomMetrics)
    /\ ~HasEIR(lastCurrent.CustomMetrics)

----------------------------------------------------------------------------
(* The event queue *)

\* how many Start calls may succeed: each creates a context and a goroutine
MaxStarts == 2

\* how many events the producers create
MaxEvents == 2

DefaultBufferSize == 100

\* the BufferSize values of the configuration
BufferSizeInputs == {0, 1}

Clients == {"c1", "c2"}

Workers == 1..MaxStarts

Events == 1..MaxEvents

\* the event types the producers use and those with a registered handler
EventTypes == {"known", "unknown"}

RegisteredTypes == {"known"}

\* NewEventQueue: a BufferSize below 1 becomes 100; ctx and cancel are nil
NewEventQueue(bufferSize) ==
    [running |-> FALSE, ctx |-> <<>>, cancel |-> <<>>, wg |-> 0, events |-> <<>>,
     bufferSize |-> IF bufferSize <= 0 THEN DefaultBufferSize ELSE bufferSize]

\* a goroutine of the application outside any call
IdleClient == [pc |-> "idle", ev |-> 0, k |-> 0]

NoWorker == [pc |-> "none"]

\* an event NewEvent has not created yet
NoEvent ==
    [type |-> "none", deadline |-> FALSE, done |-> FALSE, resultChan |-> <<>>,
     closed |-> FALSE, accepted |-> FALSE, taken |-> 0, sawExpired |-> FALSE,
     handlerCalls |-> 0, handlerFailed |-> FALSE, doneCalls |-> 0, completions |-> <<>>]

\* NewEvent: an event of type t, with or without deadline, its EventContext
\* not done and its result channel empty
NewEvent(t, deadline) == [NoEvent EXCEPT !.type = t, !.deadline = deadline]

\* ctx.Done() is readable: the context was cancelled or its parent was
CtxDone(c, cancelled) == c[1] \in cancelled \/ 0 \in cancelled

\* a goroutine panicked: the program is gone
Crashed == \E c \in Clients : clients[c].pc = "panicked"

\* the processEvents goroutines that exist
LiveWorkers == {w \in Workers : workers[w].pc \notin {"none", "exited"}}

\* the context ids no Start call has taken
FreeCtx == {k \in Workers : /\ workers[k].pc = "none"
                            /\ \A c \in Clients : clients[c].k # k}

InitQueue ==
    /\ config = NoFilter
    /\ profile = "cache"
    /\ prevSnapshot = <<>>
    /\ ran = FALSE
    /\ lastPrev = <<>>
    /\ lastCurrent = ZeroStats
    /\ deltaStats = ZeroStats
    /\ candidates = <<>>
    /\ records = <<>>
    /\ NewExportScheduler
    /\ NoExportCall
    /\ NoManager
    /\ NoHeap
    /\ NoLedger
    /\ \E b \in BufferSizeInputs : eq = NewEventQueue(b)
    /\ cancelledCtx = {}
    /\ clients = [c \in Clients |-> IdleClient]
    /\ workers = [w \in Workers |-> NoWorker]
    /\ eventObjs = [e \in Events |-> NoEvent]
    /\ returned = <<>>

notQueueVars == <<config, prevSnapshot, cycleVars, schedVars, exportVars, managerVars,
                  heapVars, ledger>>

\* the call op of client c returns r
Returns(c, op, r) == <<[client |-> c, op |-> op, ret |-> r]>>

\* Start: running.CompareAndSwap(false, true) fails when the flag is set
StartRefused(flag) == flag

\* Stop: running.CompareAndSwap(true, false) fails when the flag is clear
StopRefused(flag) == ~flag

\* Start, the compare-and-swap
QueueStartCAS(c) ==
    /\ ~Crashed
    /\ clients[c].pc = "idle"
    /\ IF StartRefused(eq.running)
       THEN /\ returned' = Returns(c, "Start", "queue is already running")
            /\ UNCHANGED <<eq, clients>>
       ELSE /\ FreeCtx # {}
            /\ eq' = [eq EXCEPT !.running = TRUE]
            /\ clients' = [clients EXCEPT ![c] =
                              [IdleClient EXCEPT !.pc = "start_ctx",
                                                 !.k = CHOOSE k \in FreeCtx :
                                                          \A m \in FreeCtx : k <= m]]
            /\ returned' = <<>>
    /\ UNCHANGED <<cancelledCtx, workers, eventObjs, notQueueVars>>

\* Start: eq.ctx, eq.cancel = context.WithCancel(ctx)
QueueStartCtx(c) ==
    /\ ~Crashed
    /\ clients[c].pc = "start_ctx"
    /\ eq' = [eq EXCEPT !.ctx = <<clients[c].k>>, !.cancel = <<clients[c].k>>]
    /\ clients' = [clients EXCEPT ![c].pc = "start_go"]
    /\ returned' = <<>>
    /\ UNCHANGED <<cancelledCtx, workers, eventObjs, notQueueVars>>

\* Start: eq.wg.Add(1); go eq.processEvents(); return nil
QueueStartGo(c) ==
    /\ ~Crashed
    /\ clients[c].pc = "start_go"
    /\ eq' = [eq EXCEPT !.wg = @ + 1]
    /\ workers' = [workers EXCEPT ![clients[c].k].pc = "select"]
    /\ clients' = [clients EXCEPT ![c] = IdleClient]
    /\ returned' = Returns(c, "Start", "nil")
    /\ UNCHANGED <<cancelledCtx, eventObjs, notQueueVars>>

\* Stop, the compare-and-swap
QueueStopCAS(c) ==
    /\ ~Crashed
    /\ clients[c].pc = "idle"
    /\ IF StopRefused(eq.running)
       THEN /\ returned' = Returns(c, "Stop", "queue is already stopped")
            /\ UNCHANGED <<eq, clients>>
       ELSE /\ eq' = [eq EXCEPT !.running = FALSE]
            /\ clients' = [clients EXCEPT ![c].pc = "stop_cancel"]
            /\ returned' = <<>>
    /\ UNCHANGED <<cancelledCtx, workers, eventObjs, notQueueVars>>

\* Stop: if eq.cancel != nil { eq.cancel() }
QueueStopCancel(c) ==
    /\ ~Crashed
    /\ clients[c].pc = "stop_cancel"
    /\ cancelledCtx' = IF eq.cancel = <<>> THEN cancelledCtx
                       ELSE cancelledCtx \cup {eq.cancel[1]}
    /\ clients' = [clients EXCEPT ![c].pc = "stop_wait"]
    /\ returned' = <<>>
    /\ UNCHANGED <<eq, workers, eventObjs, notQueueVars>>

\* Stop: eq.wg.Wait() returns when the counter is 0; return nil
QueueStopWait(c) ==
    /\ ~Crashed
    /\ clients[c].pc = "stop_wait"
    /\ eq.wg = 0
    /\ clients' = [clients EXCEPT ![c] = IdleClient]
    /\ returned' = Returns(c, "Stop", "nil")
    /\ UNCHANGED <<eq, cancelledCtx, workers, eventObjs, notQueueVars>>

\* the events NewEvent has not created yet
FreshEvents == {e \in Events : eventObjs[e].type = "none"}

\* Enqueue of a new event, the load of the flag.  An event the queue
\* refuses is dropped by its producer
EnqueueLoad(c, t, deadline) ==
    /\ ~Crashed
    /\ clients[c].pc = "idle"
    /\ FreshEvents # {}
    /\ LET e == CHOOSE x \in FreshEvents : \A y \in FreshEvents : x <= y
       IN  /\ IF ~eq.running
              THEN /\ returned' = Returns(c, "Enqueue", "queue is stopped")
                   /\ UNCHANGED <<clients, eventObjs>>
              ELSE /\ eventObjs' = [eventObjs EXCEPT ![e] = NewEvent(t, deadline)]
                   /\ clients' = [clients EXCEPT ![c] =
                                     [IdleClient EXCEPT !.ev = e, !.pc = "enq_select"]]
                   /\ returned' = <<>>
    /\ UNCHANGED <<eq, cancelledCtx, workers, notQueueVars>>

\* the send on eq.events can proceed: the buffer has room
SendReady_oneMore(buffered, size) == buffered <= size

SendReady(buffered, size) == buffered < size

\* Enqueue, the select: the cases that are ready; default when none is
EnqueueCases(q, cancelled) ==
    LET ready == (IF SendReady(Len(q.events), q.bufferSize) THEN {"send"} ELSE {})
                 \cup (IF CtxDone(q.ctx, cancelled) THEN {"done"} ELSE {})
    IN  IF ready = {} THEN {"default"} ELSE ready

\* Enqueue, the select.  eq.ctx.Done() is evaluated on entry: on the nil
\* context of a queue whose Start has not stored eq.ctx yet this is a nil
\* dereference
EnqueueSelect(c) ==
    /\ ~Crashed
    /\ clients[c].pc = "enq_select"
    /\ IF eq.ctx = <<>>
       THEN /\ clients' = [clients EXCEPT ![c].pc = "panicked"]
            /\ returned' = <<>>
            /\ UNCHANGED <<eq, eventObjs>>
       ELSE \E case \in EnqueueCases(eq, cancelledCtx) :
              /\ eq' = IF case = "send"
                       THEN [eq EXCEPT !.events = Append(@, clients[c].ev)]
                       ELSE eq
              /\ eventObjs' = [eventObjs EXCEPT ![clients[c].ev] =
                                  IF case = "send" THEN [@ EXCEPT !.accepted = TRUE]
                                  ELSE NoEvent]
              /\ clients' = [clients EXCEPT ![c] = IdleClient]
              /\ returned' = Returns(c, "Enqueue",
                                     CASE case = "send" -> "nil"
                                       [] case = "done" -> "queue context cancelled"
                                       [] OTHER -> "queue is full")
    /\ UNCHANGED <<cancelledCtx, workers, notQueueVars>>

\* EventContext.Done: the compare-and-swap on done lets one call deliver
DoneDelivers_always(done) == TRUE

DoneDelivers(done) == ~done

\* EventContext.Done(result, err) on the event object ev
Done(ev, result) ==
    IF DoneDelivers(ev.done)
    THEN [ev EXCEPT !.done = TRUE, !.resultChan = Append(@, result), !.closed = TRUE,
                    !.doneCalls = @ + 1, !.completions = Append(@, result)]
    ELSE [ev EXCEPT !.doneCalls = @ + 1]

\* what handleEvent passes to Done, and whether it invoked the handler:
\* expired is what IsExpired returned, failed whether the handler returned
\* an error
HandleOutcome(ev, expired, failed) ==
    IF expired
    THEN [result |-> "event expired: deadline exceeded", invoked |-> FALSE]
    ELSE IF ev.type \notin RegisteredTypes
    THEN [result |-> "no handler registered for event type", invoked |-> FALSE]
    ELSE IF failed THEN [result |-> "handler error", invoked |-> TRUE]
    ELSE [result |-> "processed", invoked |-> TRUE]

\* IsExpired: false without deadline, else whether the deadline has passed
IsExpiredOutcomes(ev) == IF ev.deadline THEN BOOLEAN ELSE {FALSE}

\* handleEvent on the event object ev
handleEvent(ev, expired, failed) ==
    LET out == HandleOutcome(ev, expired, failed)
    IN  Done([ev EXCEPT !.sawExpired = expired,
                        !.handlerCalls = IF out.invoked THEN @ + 1 ELSE @,
                        !.handlerFailed = out.invoked /\ failed],
             out.result)

\* Wait on the event returns: a result is in the channel or it is closed
WaitReturns(ev) == ev.resultChan # <<>> \/ ev.closed

\* the event objects after the goroutine received event e and ran
\* handleEvent on it: failed is whether the handler, if called, fails
Handled(e, failed) ==
    {[eventObjs EXCEPT ![e] = handleEvent([@ EXCEPT !.taken = @ + 1], expired, failed)] :
        expired \in IsExpiredOutcomes(eventObjs[e])}

\* processEvents, one round of its loop: the select receives an event, which
\* handleEvent completes, or finds the context done
WorkerSelect(w, failed) ==
    /\ ~Crashed
    /\ workers[w].pc = "select"
    /\ \/ /\ eq.events # <<>>
          /\ eventObjs' \in Handled(Head(eq.events), failed)
          /\ eq' = [eq EXCEPT !.events = Tail(@)]
          /\ UNCHANGED workers
       \/ /\ CtxDone(eq.ctx, cancelledCtx)
          /\ workers' = [workers EXCEPT ![w].pc = "drain"]
          /\ UNCHANGED <<eq, eventObjs>>
    /\ returned' = <<>>
    /\ UNCHANGED <<cancelledCtx, clients, notQueueVars>>

\* drainQueue, one round of its loop: an event is received and handled while
\* one is buffered, else drainQueue and processEvents return and the deferred
\* wg.Done runs
WorkerDrain(w, failed) ==
    /\ ~Crashed
    /\ workers[w].pc = "drain"
    /\ IF eq.events # <<>>
       THEN /\ eventObjs' \in Handled(Head(eq.events), failed)
            /\ eq' = [eq EXCEPT !.events = Tail(@)]
            /\ UNCHANGED workers
       ELSE /\ workers' = [workers EXCEPT ![w].pc = "exited"]
            /\ eq' = [eq EXCEPT !.wg = @ - 1]
            /\ UNCHANGED eventObjs
    /\ returned' = <<>>
    /\ UNCHANGED <<cancelledCtx, clients, notQueueVars>>

\* how many Done calls the application makes on one completed event
MaxLateDone == 1

\* the application calls Done on an event that was completed
LateDone(e) ==
    /\ ~Crashed
    /\ eventObjs[e].done
    /\ eventObjs[e].doneCalls <= MaxLateDone
    /\ eventObjs' = [eventObjs EXCEPT ![e] = Done(@, "late")]
    /\ returned' = <<>>
    /\ UNCHANGED <<eq, cancelledCtx, clients, workers, notQueueVars>>

\* the application cancels the context it gave to Start
CancelParent ==
    /\ ~Crashed
    /\ 0 \notin cancelledCtx
    /\ eq.ctx # <<>>
    /\ cancelledCtx' = cancelledCtx \cup {0}
    /\ returned' = <<>>
    /\ UNCHANGED <<eq, clients, workers, eventObjs, notQueueVars>>

\* the queue under concurrent Start, Stop and Enqueue calls: the events are
\* of the registered type, without deadline, and the handler succeeds
NextQueue ==
    \/ \E c \in Clients : QueueStartCAS(c)
    \/ \E c \in Clients : QueueStartCtx(c)
    \/ \E c \in Clients : QueueStartGo(c)
    \/ \E c \in Clients : QueueStopCAS(c)
    \/ \E c \in Clients : QueueStopCancel(c)
    \/ \E c \in Clients : QueueStopWait(c)
    \/ \E c \in Clients : EnqueueLoad(c, "known", FALSE)
    \/ \E c \in Clients : EnqueueSelect(c)
    \/ \E w \in Workers : WorkerSelect(w, FALSE)
    \/ \E w \in Workers : WorkerDrain(w, FALSE)
    \/ CancelParent

SpecQueue == InitQueue /\ [][NextQueue]_vars

\* the one goroutine that uses the queue in SpecDispatch
Producer == "c1"

\* the queue used by one goroutine, with a context that is not cancelled
\* from outside: events of every type, with and without deadline, a handler
\* that succeeds or fails, Done calls of the application
NextDispatch ==
    \/ QueueStartCAS(Producer)
    \/ QueueStartCtx(Producer)
    \/ QueueStartGo(Producer)
    \/ QueueStopCAS(Producer)
    \/ QueueStopCancel(Producer)
    \/ QueueStopWait(Producer)
    \/ \E t \in EventTypes, deadline \in BOOLEAN : EnqueueLoad(Producer, t, deadline)
    \/ EnqueueSelect(Producer)
    \/ \E w \in Workers, failed \in BOOLEAN : WorkerSelect(w, failed)
    \/ \E w \in Workers, failed \in BOOLEAN : WorkerDrain(w, failed)
    \/ \E e \in Events : LateDone(e)

\* a queue with the default buffer
InitDispatch ==
    /\ InitQueue
    /\ eq = NewEventQueue(0)

SpecDispatch == InitDispatch /\ [][NextDispatch]_vars

\* the step is the compare-and-swap of a Start or Stop call of client c
StartStep(c) == clients[c].pc = "idle" /\
                (clients'[c].pc = "start_ctx" \/ (returned' # <<>> /\ returned'[1].client = c /\ returned'[1].op = "Start"))

StopStep(c) == clients[c].pc = "idle" /\
               (clients'[c].pc = "stop_cancel" \/ (returned' # <<>> /\ returned'[1].client = c /\ returned'[1].op = "Stop"))

\* Start goes on only from a queue that is not running and returns "queue is
\* already running" otherwise; Stop goes on only from a running queue and
\* returns "queue is already stopped" otherwise; a call that went on returns nil
StartStopGuarded ==
    [][\A c \in Clients :
          /\ StartStep(c) =>
                IF eq.running
                THEN returned' = Returns(c, "Start", "queue is already running")
                ELSE clients'[c].pc = "start_ctx" /\ eq'.running
          /\ StopStep(c) =>
                IF eq.running
                THEN clients'[c].pc = "stop_cancel" /\ ~eq'.running
                ELSE returned' = Returns(c, "Stop", "queue is already stopped")
          /\ (clients[c].pc \in {"start_go", "stop_wait"} /\ clients'[c].pc = "idle") =>
                returned'[1].ret = "nil"]_vars

\* C31: Start succeeds only when the queue is not running and returns the
\* error "queue is already running" otherwise, Stop succeeds only when the
\* queue is running and returns "queue is already stopped" otherwise, and at
\* every moment at most one processEvents goroutine exists
C31_QueueLifecycle ==
    /\ StartStopGuarded
    /\ [](Cardinality(LiveWorkers) <= 1)

\* two processEvents goroutines exist at once
TwoWorkersSeen == Cardinality(LiveWorkers) = 2

\* the step is the flag load or the select of an Enqueue call of client c
EnqueueLoadStep(c) ==
    /\ clients[c].pc = "idle"
    /\ \/ clients'[c].pc = "enq_select"
       \/ (returned' # <<>> /\ returned'[1].client = c /\ returned'[1].op = "Enqueue")

EnqueueSelectStep(c) == clients[c].pc = "enq_select" /\ clients'[c].pc # "enq_select"

\* C32: Enqueue never blocks: its select can always take a step; it returns
\* an error when it finds the queue not running, an error when the buffer
\* holds BufferSize events at its select, and nil only when the event was
\* appended to the buffer; the buffer holds between 0 and BufferSize events in
\* every reachable state
C32_EnqueueNeverBlocks ==
    /\ [](\A c \in Clients :
             (clients[c].pc = "enq_select" /\ ~Crashed) => ENABLED EnqueueSelect(c))
    /\ [][\A c \in Clients :
             /\ (EnqueueLoadStep(c) /\ ~eq.running) =>
                   returned' = Returns(c, "Enqueue", "queue is stopped")
             /\ (EnqueueSelectStep(c) /\ Len(eq.events) = eq.bufferSize) =>
                   /\ returned' # <<>>
                   /\ returned'[1].ret \in {"queue is full", "queue context cancelled"}
                   /\ eq'.events = eq.events
             /\ (EnqueueSelectStep(c) /\ returned' # <<>> /\ returned'[1].ret = "nil") =>
                   eq'.events = Append(eq.events, clients[c].ev)]_vars
    /\ [](Len(eq.events) \in 0..eq.bufferSize)

\* an Enqueue call on a running queue found the buffer full and returned the
\* error "queue is full"
C32_Witness ==
    /\ returned # <<>>
    /\ returned[1].op = "Enqueue"
    /\ returned[1].ret = "queue is full"
    /\ eq.running
    /\ Len(eq.events) = eq.bufferSize

\* an Enqueue call returned nil and its event is the last of the buffer
AcceptedSeen ==
    /\ returned # <<>>
    /\ returned[1].op = "Enqueue"
    /\ returned[1].ret = "nil"
    /\ eq.events # <<>>
    /\ eventObjs[eq.events[Len(eq.events)]].accepted

\* an Enqueue call ran into the nil context of a queue whose Start had set
\* the flag and not yet stored eq.ctx
NilContextSeen == Crashed

\* the events handleEvent was called on
HandledEvents == {e \in Events : eventObjs[e].taken > 0}

\* C33: an event taken from the queue is completed exactly once by
\* handleEvent: with the expiry error and no handler call when IsExpired
\* held, else with the no-handler error when no handler is registered for
\* its type, else with the handler's error or with "processed" after one
\* handler call; Done calls after that deliver nothing, and no event is
\* ever completed twice
C33_CompletedExactlyOnce ==
    /\ \A e \in Events : Len(eventObjs[e].completions) <= 1
    /\ \A e \in HandledEvents :
          LET ev == eventObjs[e]
          IN  /\ ev.taken = 1
              /\ Len(ev.completions) = 1
              /\ ev.resultChan = ev.completions
              /\ ev.closed
              /\ IF ev.sawExpired
                 THEN /\ ev.completions[1] = "event expired: deadline exceeded"
                      /\ ev.handlerCalls = 0
                 ELSE IF ev.type \notin RegisteredTypes
                 THEN /\ ev.completions[1] = "no handler registered for event type"
                      /\ ev.handlerCalls = 0
                 ELSE /\ ev.handlerCalls = 1
                      /\ ev.completions[1] =
                            (IF ev.handlerFailed THEN "handler error" ELSE "processed")

\* an event was processed by its handler and the application then called
\* Done on it again
C33_Witness ==
    \E e \in HandledEvents :
        /\ eventObjs[e].doneCalls = 2
        /\ eventObjs[e].completions = <<"processed">>
        /\ eventObjs[e].resultChan = <<"processed">>

\* an event of an unregistered type was found expired
ExpiredSeen ==
    \E e \in HandledEvents :
        /\ eventObjs[e].sawExpired
        /\ eventObjs[e].type \notin RegisteredTypes

\* an event without registered handler was not expired
NoHandlerSeen ==
    \E e \in HandledEvents :
        eventObjs[e].completions = <<"no handler registered for event type">>

\* the handler of an event returned an error
HandlerErrorSeen ==
    \E e \in HandledEvents : eventObjs[e].completions = <<"handler error">>

\* the Go scheduler runs every goroutine that can take a step: the
\* processEvents goroutines and the calls under way go on; no new call and
\* no cancellation is required to happen
FairQueue ==
    /\ \A w \in Workers :
          /\ WF_vars(WorkerSelect(w, FALSE))
          /\ WF_vars(WorkerDrain(w, FALSE))
    /\ \A c \in Clients :
          /\ WF_vars(QueueStartCtx(c))
          /\ WF_vars(QueueStartGo(c))
          /\ WF_vars(QueueStopCancel(c))
          /\ WF_vars(QueueStopWait(c))
          /\ WF_vars(EnqueueSelect(c))

SpecQueueFair == InitQueue /\ [][NextQueue]_vars /\ FairQueue

\* the queue is stopped: the flag is clear, no call is under way and no
\* processEvents goroutine exists
QueueStopped ==
    /\ ~eq.running
    /\ LiveWorkers = {}
    /\ \A c \in Clients : clients[c].pc = "idle"

\* C38: every event for which Enqueue returned nil is eventually completed,
\* so that a Wait on it returns, and no accepted event is in the buffer of a
\* stopped queue
C38_AcceptedEventuallyCompleted ==
    /\ \A e \in Events :
          eventObjs[e].accepted ~> (eventObjs[e].done /\ WaitReturns(eventObjs[e]))
    /\ [](QueueStopped => eq.events = <<>>)

\* an accepted event lies in the buffer of a stopped queue
StrandedSeen == QueueStopped /\ eq.events # <<>> /\ ~Crashed

----------------------------------------------------------------------------
(* The batches of the PostgreSQL sink *)

\* the inserts of the call, in the order they were issued
InsertSeq == SelectSeq(transport, LAMBDA ev : ev.op = "send")

\* the records from position lo to position hi
Run(lo, hi) == {r \in AllRecords : lo <= r /\ r <= hi}

\* the set of positions b is a run of consecutive records
IsRun(b) == b # {} /\ \E lo \in b, hi \in b : b = Run(lo, hi)

First(b) == CHOOSE lo \in b : \A r \in b : lo <= r

Last(b) == CHOOSE hi \in b : \A r \in b : r <= hi

\* how many inserts were issued for the batch b, and how many failed
AttemptsOf(b) == Cardinality({i \in 1..Len(InsertSeq) : InsertSeq[i].recs = b})

FailuresOf(b) ==
    Cardinality({i \in 1..Len(InsertSeq) : InsertSeq[i].recs = b /\ ~InsertSeq[i].ok})

\* C34: with BatchSize b > 0 the inserts of PostgresExporter.Export are for
\* runs of at most b consecutive records; the first starts at the first record,
\* an insert after a successful one starts right after it and an insert after
\* a failed one repeats its batch, so that on success the batches cover every
\* record once and in order; no batch is attempted more than MaxRetry times,
\* and once a batch has failed MaxRetry times Export has returned a failure
\* and that failure is the last insert
C34_BatchesCoverInOrder ==
    (exportSink.kind = "postgres" /\ exportSink.BatchSize > 0) =>
        /\ \A i \in 1..Len(InsertSeq) :
              /\ IsRun(InsertSeq[i].recs)
              /\ Cardinality(InsertSeq[i].recs) <= exportSink.BatchSize
              /\ AttemptsOf(InsertSeq[i].recs) <= exportSink.RetryAttempts
              /\ i = 1 => First(InsertSeq[i].recs) = 1
              /\ i > 1 =>
                    IF InsertSeq[i - 1].ok
                    THEN First(InsertSeq[i].recs) = Last(InsertSeq[i - 1].recs) + 1
                    ELSE InsertSeq[i].recs = InsertSeq[i - 1].recs
              /\ FailuresOf(InsertSeq[i].recs) = exportSink.RetryAttempts =>
                    /\ InsertSeq[Len(InsertSeq)].recs = InsertSeq[i].recs
                    /\ ~InsertSeq[Len(InsertSeq)].ok
                    /\ exportPc = "returned"
                    /\ exportRet = "err"
        /\ delivered =
              UNION {InsertSeq[i].recs : i \in {j \in 1..Len(InsertSeq) : InsertSeq[j].ok}}
        /\ (exportPc = "returned" /\ exportRet = "ok") =>
              /\ delivered = AllRecords
              /\ \A i, j \in 1..Len(InsertSeq) :
                    (InsertSeq[i].ok /\ InsertSeq[j].ok /\ i # j) =>
                        InsertSeq[i].recs \cap InsertSeq[j].recs = {}

\* Export returned success after two batches, the first of which needed a
\* second attempt
C34_Witness ==
    /\ exportSink.kind = "postgres"
    /\ exportSink.BatchSize = 1
    /\ exportPc = "returned"
    /\ exportRet = "ok"
    /\ Len(exportArg) = 2
    /\ Len(InsertSeq) = 3
    /\ ~InsertSeq[1].ok
    /\ InsertSeq[2].recs = {1}
    /\ InsertSeq[3].recs = {2}

\* Export returned a failure after the first of two batches failed all its
\* attempts
FirstBatchExhaustedSeen ==
    /\ exportSink.kind = "postgres"
    /\ exportSink.BatchSize = 1
    /\ exportSink.RetryAttempts = 2
    /\ Len(exportArg) = 2
    /\ FailuresOf({1}) = 2
    /\ exportRet = "err"

----------------------------------------------------------------------------
(* The deltas of a counter over the cycles *)

\* the services whose connection and request counters the ledger follows
LedgerProfiles == {"connections", "requests"}

InitLedger ==
    /\ Init
    /\ profile \in LedgerProfiles

\* the entry of one counter after a cycle: seen is the value the collector
\* returned in the cycle before, replaced whether the cycle stored current
Entry(entry, seen, cur, delta, replaced) ==
    [sum |-> IF replaced THEN entry.sum + delta ELSE entry.sum,
     monotone |-> entry.monotone /\ cur >= seen]

\* exportCycle with a collector that returns the *ServiceStats current, and
\* the sums of the deltas
LedgerCycle ==
    /\ ledger.cycles < MaxCycles
    /\ \E current \in SnapshotsOf(profile) :
         LET delta == calculateDeltaStats(prevSnapshot, current)
         IN  \E order \in IterationOrders(delta) :
               /\ lastPrev' = prevSnapshot
               /\ lastCurrent' = current
               /\ deltaStats' = delta
               /\ candidates' = TransformCandidates(delta, order)
               /\ records' = Transform(config, delta, order)
               /\ prevSnapshot' = SlotAfterCycle(prevSnapshot, current, records')
               /\ ran' = TRUE
               /\ ledger' =
                    [cycles |-> ledger.cycles + 1,
                     Connections |->
                        [f \in ConnectionCounters |->
                            Entry(ledger.Connections[f], lastCurrent.Connections[f],
                                  current.Connections[f], delta.Connections[f],
                                  Len(records') # 0)],
                     Requests |->
                        [f \in RequestCounters |->
                            Entry(ledger.Requests[f], lastCurrent.Requests[f],
                                  current.Requests[f], delta.Requests[f],
                                  Len(records') # 0)]]
    /\ UNCHANGED <<config, profile, schedVars, exportVars, managerVars, heapVars, queueVars>>

\* exportCycle with a collector whose value is not a *ServiceStats: the
\* cycle returns after the failed type assertion
AbortedCycle ==
    /\ ledger.cycles < MaxCycles
    /\ ledger' = [ledger EXCEPT !.cycles = @ + 1]
    /\ UNCHANGED <<config, prevSnapshot, cycleVars, schedVars, exportVars, managerVars,
                   heapVars, queueVars>>

NextLedger == LedgerCycle \/ AbortedCycle

SpecLedger == InitLedger /\ [][NextLedger]_vars

\* the value of a counter in the slot: 0 while the slot is empty
InSlot(block, f) == IF prevSnapshot = <<>> THEN 0 ELSE prevSnapshot[1][block][f]

\* the sum of the deltas of counter f of the block equals its value in the slot
Balanced(block, f) == ledger[block][f].monotone => ledger[block][f].sum = InSlot(block, f)

\* C35: for every counter of the connection and request blocks that never
\* decreased over the cycles so far, aborted cycles and cycles without
\* records among them, the sum of its deltas over the cycles that replaced
\* the slot is its value in the snapshot the slot holds
C35_NoIncrementLost ==
    /\ \A f \in ConnectionCounters : Balanced("Connections", f)
    /\ \A f \in RequestCounters : Balanced("Requests", f)

\* the counters the literals of calculateDeltaStats name are balanced
NamedCountersBalanced ==
    /\ \A f \in ConnectionCounters \ {"Closed"} : Balanced("Connections", f)
    /\ \A f \in RequestCounters \ {"BytesSent", "BytesRecv"} : Balanced("Requests", f)

\* a counter that never decreased went up between two cycles that replaced
\* the slot, after an aborted cycle
IncrementSeen ==
    /\ ledger.cycles = 3
    /\ ledger.Connections["Total"].monotone
    /\ ledger.Connections["Total"].sum = 2
    /\ lastPrev # <<>>
    /\ lastPrev[1].Connections["Total"] = 1

----------------------------------------------------------------------------
(* Stop and the stop channel *)

\* C36: whatever the sequence of Start and Stop calls on one scheduler,
\* Start, Stop, Start, Stop included, close is never called on the closed
\* stop channel: no Stop call panics
C36_StopChannelClosedOnce == ~panicked

\* a Stop call panicked while no other call was under way and every run
\* goroutine had exited
LoneStopPanics ==
    /\ panicked
    /\ \E c \in Callers :
          /\ callers[c].pc = "stop_close"
          /\ \A d \in Callers \ {c} : callers[d].pc = "idle"
    /\ \A l \in Loops : loops[l].pc = "exited"

\* a Stop call that found the scheduler running has returned
StopReturned ==
    /\ stopped
    /\ \A c \in Callers : callers[c].pc \notin {"stop_close", "stop_wait", "stop_closing"}

\* an Export call on sink k is under way in run goroutine l
ExportUnderWay(l, k) == loops[l].exp[k] \notin {"idle"} \cup Returned

\* C37: once a Stop call on a started scheduler has returned, every run
\* goroutine that was created has exited and none is still to be created, no
\* export cycle is in progress and no Export call is under way on any sink
C37_NothingRunsAfterStop ==
    StopReturned =>
        /\ \A l \in Loops : loops[l].pc \in {"none", "exited"}
        /\ PendingStarts = {}
        /\ \A l \in Loops : ~InCycle(loops[l])
        /\ \A l \in Loops, k \in Sinks : ~ExportUnderWay(l, k)

\* Export is under way on a sink that Stop has closed, after Stop returned
ExportAfterCloseSeen ==
    /\ StopReturned
    /\ \E l \in Loops, k \in Sinks : ExportUnderWay(l, k) /\ closeCount[k] > 0

----------------------------------------------------------------------------
(* CompareStats (package stats) *)

\* a - b on uint64
Sub64(a, b) == (a - b) % Modulus

\* CompareStats(before, after): the counters are subtracted with -, the gauges
\* Active and Pending and the performance block are those of after, the
\* fields the literal does not name are zero values
CompareStats(before, after) ==
    [ServiceName |-> after.ServiceName,
     ServiceVersion |-> "",
     Uptime |-> "",
     Timestamp |-> after.Timestamp,
     Connections |->
        [Total |-> Sub64(after.Connections.Total, before.Connections.Total),
         Active |-> after.Connections.Active,
         Failed |-> Sub64(after.Connections.Failed, before.Connections.Failed),
         Closed |-> Sub64(after.Connections.Closed, before.Connections.Closed)],
     Requests |->
        [Total |-> Sub64(after.Requests.Total, before.Requests.Total),
         Success |-> Sub64(after.Requests.Success, before.Requests.Success),
         Failed |-> Sub64(after.Requests.Failed, before.Requests.Failed),
         Pending |-> after.Requests.Pending,
         BytesSent |-> Sub64(after.Requests.BytesSent, before.Requests.BytesSent),
         BytesRecv |-> Sub64(after.Requests.BytesRecv, before.Requests.BytesRecv),
         BySource |->
            [source \in DOMAIN after.Requests.BySource |->
                LET afterStats == after.Requests.BySource[source]
                    beforeStats == MapGet(before.Requests.BySource, source, ZeroSourceStats)
                IN  [Total |-> Sub64(afterStats.Total, beforeStats.Total),
                     Success |-> Sub64(afterStats.Success, beforeStats.Success),
                     Failed |-> Sub64(afterStats.Failed, beforeStats.Failed)]],
         ByOperation |-> EmptyMap],
     Performance |-> after.Performance,
     Errors |-> ErrorStats(Sub64(after.Errors.Total, before.Errors.Total), EmptyMap,
                           EmptyMap, <<>>),
     InterfaceStats |-> EmptyMap,
     CustomMetrics |-> EmptyMap]

\* the services whose snapshots are compared
CompareProfiles == {"connections", "requests", "bySource", "errors"}

InitCompare ==
    /\ Init
    /\ config = NoFilter
    /\ profile \in CompareProfiles

\* one call diff := CompareStats(before, after) on two fetched snapshots
Compare(before, after) ==
    /\ lastPrev' = <<before>>
    /\ lastCurrent' = after
    /\ deltaStats' = CompareStats(before, after)
    /\ ran' = TRUE
    /\ UNCHANGED <<config, profile, prevSnapshot, candidates, records, schedVars, callVars>>

NextCompare == \E before, after \in SnapshotsOf(profile) : Compare(before, after)

SpecCompare == InitCompare /\ [][NextCompare]_vars

\* C39: every counter difference CompareStats returns (connections
\* total/failed/closed, requests total/success/failed/bytes sent/bytes
\* received, errors total, per-source total/success/failed) is at most the
\* field's value in after, also when the field is greater in before: no
\* difference wraps around
C39_DifferencesNeverWrap ==
    ran =>
        /\ \A f \in ConnectionCounters :
              deltaStats.Connections[f] <= lastCurrent.Connections[f]
        /\ \A f \in RequestCounters :
              deltaStats.Requests[f] <= lastCurrent.Requests[f]
        /\ deltaStats.Errors.Total <= lastCurrent.Errors.Total
        /\ \A source \in DOMAIN deltaStats.Requests.BySource :
              \A f \in SourceFields :
                 deltaStats.Requests.BySource[source][f] <=
                    lastCurrent.Requests.BySource[source][f]

\* the differences of two snapshots whose counters did not decrease are the
\* plain differences
GrowthCompared ==
    /\ ran
    /\ lastPrev[1].Requests.Total = 1
    /\ lastCurrent.Requests.Total = 2
    /\ deltaStats.Requests.Total = 1
====
